---- MODULE Spec2Model ----
(***************************************************************************)
(* Model of the LLM egress guard: policy evaluation (app/policy.py),       *)
(* action application (app/actions.py), the detector registry              *)
(* (app/detectors) and the orchestrator run_pipeline (app/pipeline.py).    *)
(*                                                                         *)
(* Text is a sequence of one-character strings.  Python's None is the      *)
(* string "None" for nullable strings and the record NoRule for a failed   *)
(* dictionary lookup.                                                      *)
(***************************************************************************)
EXTENDS Integers, Sequences, FiniteSets, TLC

VARIABLES
    pc,             \* position of the call being modelled
    policy_view,    \* PolicyDefinition handed to the detectors and to evaluate
    settings,       \* Settings snapshot (feature flags, bypass opt-in)
    findings,       \* list of Finding records
    decision,       \* PolicyDecision returned by evaluate
    parsed_text,    \* text handed to apply_actions (parsed.text)
    response,       \* text returned by apply_actions / run_pipeline
    safe_messages,  \* catalog read from the safe-messages file
    request,        \* GuardRequest being served by run_pipeline
    segments,       \* parsed.segments
    policy_file,    \* the policy file on disk: exists, st_mtime, content
    policy_cache,   \* _POLICY_CACHE entry of the policy path, or NoCacheEntry
    detectors_run,  \* names of the detectors scan_all has invoked so far
    error,          \* where the exception that ended run_pipeline was raised
    last_load,      \* what the most recent direct load_policy call returned
    loaders,        \* the threads inside load_policy: position and locals
    normalized,     \* results of the successive direct normalize_text calls
    guard_semaphore,      \* permits left in create_app's guard_semaphore
    guard_requests,       \* the /guard requests: position, body, thread, status
    model_artifact,       \* the model file and its manifest on disk
    ml_preclassifier,     \* what load_preclassifier returned or raised
    ml_preclf_load_total, \* the load metric: observations by status
    ml_shadow_total,      \* metrics.observe_ml_shadow: the observations
    siem_config,          \* SIEMManager.config, ._connector and ._running
    siem_queue,           \* SIEMManager._queue
    siem_calls,           \* the enqueue calls: in progress, and the last return
    siem_flushes,         \* the _flush tasks: scheduled, or sending a batch
    siem_metrics          \* SIEMManager.metrics

\* the variables only run_pipeline touches
pipeline_vars ==
    <<request, segments, policy_file, policy_cache, detectors_run, error>>

\* the variables of the calls made outside run_pipeline
cache_vars == <<last_load, loaders>>

normalize_vars == <<normalized>>

guard_vars == <<guard_semaphore, guard_requests>>

ml_vars == <<model_artifact, ml_preclassifier, ml_preclf_load_total,
             ml_shadow_total>>

siem_vars == <<siem_config, siem_queue, siem_calls, siem_flushes, siem_metrics>>

service_vars == <<cache_vars, normalize_vars, guard_vars, ml_vars, siem_vars>>

vars == <<pc, policy_view, settings, findings, decision, parsed_text, response,
          safe_messages, request, segments, policy_file, policy_cache,
          detectors_run, error, last_load, loaders, normalized, guard_semaphore,
          guard_requests, model_artifact, ml_preclassifier,
          ml_preclf_load_total, ml_shadow_total, siem_config, siem_queue,
          siem_calls,
          siem_flushes, siem_metrics>>

----------------------------------------------------------------------------
(* Bounds of the model *)

MaxFindings == 2

MaxTextLen == 2

\* the policy file's st_mtime takes the values 1..MaxMtime
MaxMtime == 2

\* the texts handed to normalize_text directly have up to MaxNormalizeLen
\* characters
MaxNormalizeLen == 3

\* the texts handed to parse_content directly are made of up to MaxPieces
\* pieces
MaxPieces == 4

\* the model serves up to MaxGuardRequests requests on /guard
MaxGuardRequests == 3

\* Settings.max_concurrent_guard_requests as the modelled deployment sets it
MaxConcurrentGuardRequests == 1

\* the allowlists of the direct build_findings calls have up to MaxAllowlist
\* entries
MaxAllowlist == 2

\* the capacity of the SIEM queue: SIEMManager.MAX_QUEUE_SIZE is 10000 in the
\* source and is scaled down here, so that a full queue is reached
MaxQueueSize == 2

\* the enqueue calls made on one SIEMManager
MaxSiemCalls == 4

\* the largest SIEMConfig.batch_size
MaxBatchSize == 2

----------------------------------------------------------------------------
(* Generic helpers *)

None == "None"

\* None where a text (a sequence) or a span is expected
NoText == <<"None">>

NoSpan == <<>>

Max(a, b) == IF a >= b THEN a ELSE b

Min(a, b) == IF a <= b THEN a ELSE b

RECURSIVE SumSeq(_)
SumSeq(s) == IF s = <<>> THEN 0 ELSE s[1] + SumSeq(Tail(s))

----------------------------------------------------------------------------
(* app/normalize.py *)

\* A character is a one-character string; characters that cannot be written
\* in a TLA+ string literal are named by their code point ("U+200B").

\* chr(n) for n in 0..127, at index n + 1
AsciiTable ==
   <<
      "U+0000", "U+0001", "U+0002", "U+0003", "U+0004", "U+0005", "U+0006", "U+0007",
      "U+0008", "\t", "\n", "U+000B", "U+000C", "\r", "U+000E", "U+000F",
      "U+0010", "U+0011", "U+0012", "U+0013", "U+0014", "U+0015", "U+0016", "U+0017",
      "U+0018", "U+0019", "U+001A", "U+001B", "U+001C", "U+001D", "U+001E", "U+001F",
      " ", "!", "U+0022", "#", "$", "%", "&", "'",
      "(", ")", "*", "+", ",", "-", ".", "/",
      "0", "1", "2", "3", "4", "5", "6", "7",
      "8", "9", ":", ";", "<", "=", ">", "?",
      "@", "A", "B", "C", "D", "E", "F", "G",
      "H", "I", "J", "K", "L", "M", "N", "O",
      "P", "Q", "R", "S", "T", "U", "V", "W",
      "X", "Y", "Z", "[", "U+005C", "]", "^", "_",
      "U+0060", "a", "b", "c", "d", "e", "f", "g",
      "h", "i", "j", "k", "l", "m", "n", "o",
      "p", "q", "r", "s", "t", "u", "v", "w",
      "x", "y", "z", "{", "|", "}", "~", "U+007F"
   >>

REPLACEMENT_CHARACTER == "U+FFFD"

\* the character one percent-decoded byte stands for; bytes above 0x7F are
\* decoded with errors="replace" (multi-byte UTF-8 sequences are not part of
\* the modelled inputs)
ByteChar(n) == IF n < 128 THEN AsciiTable[n + 1] ELSE REPLACEMENT_CHARACTER

HexDigits == <<"0", "1", "2", "3", "4", "5", "6", "7", "8", "9",
               "a", "b", "c", "d", "e", "f">>

UpperHexDigits == <<"0", "1", "2", "3", "4", "5", "6", "7", "8", "9",
                    "A", "B", "C", "D", "E", "F">>

IsHexDigit(c) ==
    \E i \in 1..16 : HexDigits[i] = c \/ UpperHexDigits[i] = c

HexValue(c) ==
    (CHOOSE i \in 1..16 : HexDigits[i] = c \/ UpperHexDigits[i] = c) - 1

\* urllib.parse.unquote: every %XX with two hex digits becomes its byte
RECURSIVE unquote(_)
unquote(value) ==
    IF value = <<>> THEN <<>>
    ELSE IF /\ Head(value) = "%"
            /\ Len(value) >= 3
            /\ IsHexDigit(value[2])
            /\ IsHexDigit(value[3])
         THEN <<ByteChar(16 * HexValue(value[2]) + HexValue(value[3]))>>
                  \o unquote(SubSeq(value, 4, Len(value)))
         ELSE <<Head(value)>> \o unquote(Tail(value))

\* the while loop of _safe_url_decode (normalize.py 68-80)
RECURSIVE url_decode_loop(_, _, _)
url_decode_loop(value, passes, max_passes) ==
    IF passes >= max_passes THEN [value |-> value, passes |-> passes]
    ELSE LET decoded == unquote(value)
         IN  IF decoded = value THEN [value |-> value, passes |-> passes]
             ELSE url_decode_loop(decoded, passes + 1, max_passes)

\* _safe_url_decode (normalize.py 54-85): the decoded text
safe_url_decode(value, max_passes) == url_decode_loop(value, 0, max_passes).value

ZERO_WIDTH_CHARS ==
    {"U+200B", "U+200C", "U+200D", "U+200E", "U+200F", "U+2060", "U+FEFF"}

ALLOWED_CONTROL_CHARS == {"\n", "\r", "\t"}

\* unicodedata.category(char).startswith("C") on the modelled characters:
\* Cc (C0 controls, DEL), Cf (format characters, which include the
\* zero-width ones and U+00AD) and Co (private use, U+E000)
CategoryC ==
    {AsciiTable[n + 1] : n \in 0..31} \cup {AsciiTable[128]}
        \cup ZERO_WIDTH_CHARS \cup {"U+00AD", "U+E000"}

\* _strip_zero_width_characters (normalize.py 154-157)
strip_zero_width_characters(value) ==
    SelectSeq(value, LAMBDA c : c \notin ZERO_WIDTH_CHARS)

\* _strip_control_characters (normalize.py 160-174)
strip_control_characters(value) ==
    SelectSeq(value, LAMBDA c : c \in ALLOWED_CONTROL_CHARS \/ c \notin CategoryC)

\* value.replace("\r\n", "\n") (normalize.py 272-273)
RECURSIVE normalize_newlines(_)
normalize_newlines(value) ==
    IF value = <<>> THEN <<>>
    ELSE IF Len(value) >= 2 /\ value[1] = "\r" /\ value[2] = "\n"
         THEN <<"\n">> \o normalize_newlines(SubSeq(value, 3, Len(value)))
         ELSE <<Head(value)>> \o normalize_newlines(Tail(value))

\* the characters of the model that are not ASCII, by code point
CodePointChars ==
   <<<<160, "U+00A0">>, <<173, "U+00AD">>, <<8203, "U+200B">>,
     <<65279, "U+FEFF">>, <<65285, "U+FF05">>, <<65345, "U+FF41">>,
     <<65364, "U+FF54">>>>

\* one token for every character outside the modelled ones
UnmodelledChar == "U+????"

\* chr(num)
chr(num) ==
    IF num < 128 THEN AsciiTable[num + 1]
    ELSE IF \E i \in 1..Len(CodePointChars) : CodePointChars[i][1] = num
         THEN (CHOOSE p \in {CodePointChars[i] : i \in 1..Len(CodePointChars)} :
                   p[1] = num)[2]
         ELSE UnmodelledChar

\* the largest code point, 0x10FFFF
MaxCodePoint == 1114111

\* int(digits, base); every value above MaxCodePoint is kept as MaxCodePoint + 1
RECURSIVE ParseInt(_, _, _)
ParseInt(digits, base, acc) ==
    IF digits = <<>> THEN acc
    ELSE ParseInt(Tail(digits), base,
                  Min(acc * base + HexValue(Head(digits)), MaxCodePoint + 1))

\* html._invalid_codepoints
InvalidCodepoints ==
    (1..8) \cup (14..31) \cup (127..159) \cup (64976..65007) \cup {11}
        \cup {65536 * plane + low : plane \in 0..16, low \in {65534, 65535}}

\* html._replace_charref for a numeric reference
numeric_charref(num) ==
    IF num = 0 THEN <<REPLACEMENT_CHARACTER>>
    ELSE IF num = 13 THEN <<"\r">>
    ELSE IF num \in 128..159 THEN <<UnmodelledChar>>
    ELSE IF (num >= 55296 /\ num <= 57343) \/ num > MaxCodePoint
         THEN <<REPLACEMENT_CHARACTER>>
    ELSE IF num \in InvalidCodepoints THEN <<>>
    ELSE <<chr(num)>>

\* html.entities.html5 restricted to the names written with the letters
\* a l m p t and digits: <<name, replacement>>
Html5Table ==
   <<
      <<<<"a", "m", "p">>, <<"&">>>>,
      <<<<"a", "m", "p", ";">>, <<"&">>>>,
      <<<<"a", "p", ";">>, <<"U+2248">>>>,
      <<<<"l", "a", "p", ";">>, <<"U+2A85">>>>,
      <<<<"l", "a", "t", ";">>, <<"U+2AAB">>>>,
      <<<<"l", "l", ";">>, <<"U+226A">>>>,
      <<<<"l", "t">>, <<"<">>>>,
      <<<<"l", "t", ";">>, <<"<">>>>,
      <<<<"m", "a", "l", "t", ";">>, <<"U+2720">>>>,
      <<<<"m", "a", "p", ";">>, <<"U+21A6">>>>,
      <<<<"m", "p", ";">>, <<"U+2213">>>>,
      <<<<"p", "m", ";">>, <<"U+00B1">>>>
   >>

HasEntity(name) == \E i \in 1..Len(Html5Table) : Html5Table[i][1] = name

EntityValue(name) ==
    (CHOOSE p \in {Html5Table[i] : i \in 1..Len(Html5Table)} : p[1] = name)[2]

\* the loop "for x in range(len(s)-1, 1, -1)" of html._replace_charref
RECURSIVE longest_entity_prefix(_, _)
longest_entity_prefix(s, x) ==
    IF x <= 1 THEN <<"&">> \o s
    ELSE IF HasEntity(SubSeq(s, 1, x))
         THEN EntityValue(SubSeq(s, 1, x)) \o SubSeq(s, x + 1, Len(s))
         ELSE longest_entity_prefix(s, x - 1)

\* rstrip(";")
RECURSIVE rstrip_semicolon(_)
rstrip_semicolon(s) ==
    IF s # <<>> /\ s[Len(s)] = ";" THEN rstrip_semicolon(SubSeq(s, 1, Len(s) - 1))
    ELSE s

\* html._replace_charref: s is what follows the ampersand
replace_charref(s) ==
    IF s[1] = "#"
    THEN IF s[2] \in {"x", "X"}
         THEN numeric_charref(ParseInt(rstrip_semicolon(SubSeq(s, 3, Len(s))), 16, 0))
         ELSE numeric_charref(ParseInt(rstrip_semicolon(SubSeq(s, 2, Len(s))), 10, 0))
    ELSE IF HasEntity(s) THEN EntityValue(s)
         ELSE longest_entity_prefix(s, Len(s) - 1)

\* the number of consecutive characters of s from index i on whose membership
\* in chars is `inside`, at most limit
RECURSIVE RunLength(_, _, _, _, _)
RunLength(s, i, chars, inside, limit) ==
    IF i > Len(s) \/ limit = 0 \/ (s[i] \in chars) # inside THEN 0
    ELSE 1 + RunLength(s, i + 1, chars, inside, limit - 1)

DecimalDigits == {HexDigits[i] : i \in 1..10}

AllHexDigits == {HexDigits[i] : i \in 1..16} \cup {UpperHexDigits[i] : i \in 1..16}

AsciiLetters == {AsciiTable[n + 1] : n \in (65..90) \cup (97..122)}

\* with an optional trailing semicolon
WithSemicolon(s, n) == IF n + 1 <= Len(s) /\ s[n + 1] = ";" THEN n + 1 ELSE n

\* html._charref, &(#[0-9]+;?|#[xX][0-9a-fA-F]+;?|[^\t\n\f <&#;]{1,32};?),
\* tried on what follows an ampersand: the length of group 1, 0 when it does
\* not match
charref_match(s) ==
    LET dec   == RunLength(s, 2, DecimalDigits, TRUE, Len(s))
        hex   == RunLength(s, 3, AllHexDigits, TRUE, Len(s))
        named == RunLength(s, 1, {"\t", "\n", "U+000C", " ", "<", "&", "#", ";"},
                           FALSE, 32)
    IN  IF s = <<>> THEN 0
        ELSE IF s[1] = "#" /\ dec >= 1 THEN WithSemicolon(s, 1 + dec)
        ELSE IF s[1] = "#" /\ Len(s) >= 2 /\ s[2] \in {"x", "X"} /\ hex >= 1
             THEN WithSemicolon(s, 2 + hex)
        ELSE IF named >= 1 THEN WithSemicolon(s, named)
        ELSE 0

\* html.unescape: _charref.sub(_replace_charref, value)
RECURSIVE html_unescape(_)
html_unescape(value) ==
    IF value = <<>> THEN <<>>
    ELSE IF Head(value) = "&"
         THEN LET m == charref_match(Tail(value))
              IN  IF m = 0 THEN <<"&">> \o html_unescape(Tail(value))
                  ELSE replace_charref(SubSeq(value, 2, m + 1))
                           \o html_unescape(SubSeq(value, m + 2, Len(value)))
         ELSE <<Head(value)>> \o html_unescape(Tail(value))

\* _HTML_ENTITY_PATTERN, &(?:[a-zA-Z]+|#x?[0-9a-fA-F]+);, matches at index i
html_entity_at(value, i) ==
    /\ value[i] = "&"
    /\ LET s       == SubSeq(value, i + 1, Len(value))
           letters == RunLength(s, 1, AsciiLetters, TRUE, Len(s))
           hex     == RunLength(s, 2, AllHexDigits, TRUE, Len(s))
           xhex    == RunLength(s, 3, AllHexDigits, TRUE, Len(s))
       IN  \/ letters >= 1 /\ WithSemicolon(s, letters) = letters + 1
           \/ /\ s # <<>> /\ s[1] = "#"
              /\ \/ hex >= 1 /\ WithSemicolon(s, 1 + hex) = 2 + hex
                 \/ /\ Len(s) >= 2 /\ s[2] = "x"
                    /\ xhex >= 1 /\ WithSemicolon(s, 2 + xhex) = 3 + xhex

\* _count_html_entities (normalize.py 49-51)
count_html_entities(value) ==
    Cardinality({i \in 1..Len(value) : html_entity_at(value, i)})

\* mutant: the length of the decoded text is not limited
html_unescape_known_entities_unlimited_output(value, max_entities, max_output_length) ==
    LET entity_count == count_html_entities(value)
        unescaped    == html_unescape(value)
        remaining    == count_html_entities(unescaped)
    IN  IF entity_count > max_entities
        THEN [value |-> value, anomalies |-> <<"html_entity_count_exceeded">>]
        ELSE IF unescaped # value /\ remaining > 0 /\ remaining < entity_count
        THEN [value |-> unescaped, anomalies |-> <<"double_encoding_detected">>]
        ELSE [value |-> unescaped, anomalies |-> <<>>]

\* _html_unescape_known_entities (normalize.py 88-151): the text and the
\* anomalies it reports
html_unescape_known_entities(value, max_entities, max_output_length) ==
    LET entity_count == count_html_entities(value)
        unescaped    == html_unescape(value)
        remaining    == count_html_entities(unescaped)
    IN  IF entity_count > max_entities
        THEN [value |-> value, anomalies |-> <<"html_entity_count_exceeded">>]
        ELSE IF Len(unescaped) > max_output_length
        THEN [value |-> value, anomalies |-> <<"html_output_length_exceeded">>]
        ELSE IF unescaped # value /\ remaining > 0 /\ remaining < entity_count
        THEN [value |-> unescaped, anomalies |-> <<"double_encoding_detected">>]
        ELSE [value |-> unescaped, anomalies |-> <<>>]

\* unicodedata.normalize("NFKC", c) for the characters of the model it changes
NfkcTable ==
   <<<<"U+00A0", <<" ">>>>, <<"U+FF05", <<"%">>>>, <<"U+FF41", <<"a">>>>,
     <<"U+FF54", <<"t">>>>>>

\* unicodedata.normalize("NFKC", value); no modelled character composes with
\* its neighbour
RECURSIVE nfkc(_)
nfkc(value) ==
    IF value = <<>> THEN <<>>
    ELSE LET c == Head(value)
         IN  (IF \E i \in 1..Len(NfkcTable) : NfkcTable[i][1] = c
              THEN (CHOOSE p \in {NfkcTable[i] : i \in 1..Len(NfkcTable)} :
                        p[1] = c)[2]
              ELSE <<c>>) \o nfkc(Tail(value))

\* the characters of the model that the regex class \w matches
WordChars ==
    AsciiLetters \cup DecimalDigits \cup {"_", "U+FF41", "U+FF54"}

\* the characters of the model that the regex class \s matches
SpaceChars ==
    {"\t", "\n", "U+000B", "U+000C", "\r", "U+001C", "U+001D", "U+001E",
     "U+001F", " ", "U+00A0"}

\* the lower-case form the (?i) flag compares by
Lower(c) ==
    IF \E n \in 65..90 : AsciiTable[n + 1] = c
    THEN AsciiTable[(CHOOSE n \in 65..90 : AsciiTable[n + 1] = c) + 33]
    ELSE c

\* value[i..] starts with word, ignoring case
StartsWithWord(value, i, word) ==
    /\ i + Len(word) - 1 <= Len(value)
    /\ \A k \in 1..Len(word) : Lower(value[i + k - 1]) = word[k]

\* the length of the match of (?i)(?:\[word\]|\(word\)|\{word\}|\bword\b) at
\* index i, 0 when there is none
obfuscation_match(value, i, word) ==
    LET n == Len(word)
    IN  IF /\ i + n + 1 <= Len(value)
           /\ <<value[i], value[i + n + 1]>> \in {<<"[", "]">>, <<"(", ")">>, <<"{", "}">>}
           /\ StartsWithWord(value, i + 1, word)
        THEN n + 2
        ELSE IF /\ StartsWithWord(value, i, word)
                /\ (i = 1 \/ value[i - 1] \notin WordChars)
                /\ (i + n > Len(value) \/ value[i + n] \notin WordChars)
        THEN n
        ELSE 0

\* pattern.sub(repl, value) for the two obfuscation patterns
RECURSIVE obfuscation_sub(_, _, _, _)
obfuscation_sub(value, i, word, repl) ==
    IF i > Len(value) THEN <<>>
    ELSE LET m == obfuscation_match(value, i, word)
         IN  IF m > 0 THEN <<repl>> \o obfuscation_sub(value, i + m, word, repl)
             ELSE <<value[i]>> \o obfuscation_sub(value, i + 1, word, repl)

\* the elements of value at the indices in keep, in order
RECURSIVE KeepIndices(_, _, _)
KeepIndices(value, i, keep) ==
    IF i > Len(value) THEN <<>>
    ELSE (IF i \in keep THEN <<value[i]>> ELSE <<>>)
             \o KeepIndices(value, i + 1, keep)

\* the index of the first character at or after i that is not white space
RECURSIVE NextNonSpace(_, _)
NextNonSpace(value, i) ==
    IF i > Len(value) \/ value[i] \notin SpaceChars THEN i
    ELSE NextNonSpace(value, i + 1)

\* the index of the last character at or before i that is not white space
RECURSIVE PrevNonSpace(_, _)
PrevNonSpace(value, i) ==
    IF i < 1 \/ value[i] \notin SpaceChars THEN i
    ELSE PrevNonSpace(value, i - 1)

\* re.sub(r"\s*(?=c)", "", value)
strip_space_before(value, c) ==
    KeepIndices(value, 1,
        {i \in 1..Len(value) :
            ~ /\ value[i] \in SpaceChars
              /\ NextNonSpace(value, i) <= Len(value)
              /\ value[NextNonSpace(value, i)] = c})

\* re.sub(r"(?<=c)\s+", "", value)
strip_space_after(value, c) ==
    KeepIndices(value, 1,
        {i \in 1..Len(value) :
            ~ /\ value[i] \in SpaceChars
              /\ PrevNonSpace(value, i) >= 1
              /\ value[PrevNonSpace(value, i)] = c})

\* _expand_obfuscations (normalize.py 181-190)
expand_obfuscations(value) ==
    LET at_expanded  == obfuscation_sub(value, 1, <<"a", "t">>, "@")
        dot_expanded == obfuscation_sub(at_expanded, 1, <<"d", "o", "t">>, ".")
    IN  strip_space_after(
            strip_space_before(
                strip_space_after(strip_space_before(dot_expanded, "@"), "@"),
                "."),
            ".")

\* mutant: the two strips run before the decoding steps
normalize_text_strips_first(value, max_unescape, over_budget) ==
    LET stripped    == strip_control_characters(strip_zero_width_characters(value))
        url_decoded == safe_url_decode(stripped, 2)
        unescaped   == IF over_budget THEN url_decoded
                       ELSE html_unescape_known_entities(
                                url_decoded, max_unescape, max_unescape * 2).value
    IN  normalize_newlines(expand_obfuscations(nfkc(unescaped)))

\* normalize_text (normalize.py 193-294): the text of the result. over_budget
\* says whether perf_counter() found the time budget exceeded before the HTML
\* step, which then is skipped.
normalize_text(value, max_unescape, over_budget) ==
    LET url_decoded == safe_url_decode(value, 2)
        unescaped   == IF over_budget THEN url_decoded
                       ELSE html_unescape_known_entities(
                                url_decoded, max_unescape, max_unescape * 2).value
        expanded    == expand_obfuscations(nfkc(unescaped))
    IN  normalize_newlines(
            strip_control_characters(strip_zero_width_characters(expanded)))

\* the default of normalize_text's max_unescape
DEFAULT_MAX_UNESCAPE == 1000

----------------------------------------------------------------------------
(* app/policy.py : data model *)

DEFAULT_RULE_WEIGHT == 10

DefaultContextSettings ==
    [enabled |-> TRUE, code_block_penalty |-> 15,
     explain_only_penalty |-> 25, link_context_bonus |-> 5]

PolicyRule(id, type, action, kind, pattern, risk_weight, safe_message) ==
    [id |-> id, type |-> type, action |-> action, kind |-> kind,
     pattern |-> pattern, risk_weight |-> risk_weight,
     safe_message |-> safe_message]

\* result of rules_by_id.get(rule_id) when the id is unknown
NoRule == PolicyRule(None, None, None, None, None, 0, None)

\* the policy file does not exist
NoFile == [exists |-> FALSE, mtime |-> 0, content |-> None]

\* _POLICY_CACHE.get(resolved) when the path has no entry
NoCacheEntry == [cached |-> FALSE, mtime |-> 0, content |-> None, instance |-> 0]

\* no direct load_policy call has been made yet
NoLoad ==
    [returned |-> FALSE, instance |-> 0, parsed |-> FALSE, calls |-> 0,
     disturbed |-> FALSE]

NoRequest == [response |-> NoText, policy_id |-> None, tenant |-> None]

NoDecision ==
    [blocked |-> FALSE, risk_score |-> 0, applied_rules |-> <<>>,
     safe_message_key |-> None]

\* PolicyDefinition.rules_by_id : {rule.id: rule for rule in self.rules};
\* a later rule with the same id replaces an earlier one.
RECURSIVE rules_by_id(_, _)
rules_by_id(rules, rule_id) ==
    IF rules = <<>> THEN NoRule
    ELSE LET last == rules[Len(rules)]
         IN  IF last.id = rule_id THEN last
             ELSE rules_by_id(SubSeq(rules, 1, Len(rules) - 1), rule_id)

----------------------------------------------------------------------------
(* app/policy.py : evaluation *)

\* mutant: the per-finding clamp at 0 is missing
apply_context_adjustment_noclamp(finding, base_risk, context_settings) ==
    IF ~context_settings.enabled THEN base_risk
    ELSE base_risk
         - (IF finding.explain_only /\ finding.type = "cmd"
            THEN context_settings.explain_only_penalty ELSE 0)
         - (IF finding.context = "code" /\ ~finding.explain_only
            THEN context_settings.code_block_penalty ELSE 0)
         + (IF finding.context = "link" /\ finding.type = "url"
            THEN context_settings.link_context_bonus ELSE 0)

\* mutant: an explain-only finding in code is charged the code-block penalty
\* as well
apply_context_adjustment_double_penalty(finding, base_risk, context_settings) ==
    IF ~context_settings.enabled THEN base_risk
    ELSE LET a1 == IF finding.explain_only /\ finding.type = "cmd"
                   THEN base_risk - context_settings.explain_only_penalty
                   ELSE base_risk
             a2 == IF finding.context = "code"
                   THEN a1 - context_settings.code_block_penalty
                   ELSE a1
             a3 == IF finding.context = "link" /\ finding.type = "url"
                   THEN a2 + context_settings.link_context_bonus
                   ELSE a2
         IN  Max(a3, 0)

\* _apply_context_adjustment (policy.py 304-341)
apply_context_adjustment(finding, base_risk, context_settings) ==
    IF ~context_settings.enabled THEN base_risk
    ELSE LET a1 == IF finding.explain_only /\ finding.type = "cmd"
                   THEN base_risk - context_settings.explain_only_penalty
                   ELSE base_risk
             a2 == IF finding.context = "code" /\ ~finding.explain_only
                   THEN a1 - context_settings.code_block_penalty
                   ELSE a1
             a3 == IF finding.context = "link" /\ finding.type = "url"
                   THEN a2 + context_settings.link_context_bonus
                   ELSE a2
         IN  Max(a3, 0)

\* adjusted_weight of one finding whose rule is known (policy.py 387-388)
adjusted_weight(policy_def, finding) ==
    LET rule == rules_by_id(policy_def.rules, finding.rule_id)
    IN  apply_context_adjustment(finding, Max(rule.risk_weight, 0),
                                 policy_def.context_settings)

\* mutant: the explain-only downgrade is not gated by the opt-in flag
evaluate_step_always_bypass(acc, finding, policy_def, bypass) ==
    LET rule == rules_by_id(policy_def.rules, finding.rule_id)
        applied == Append(acc.applied_rules, finding.rule_id)
        adj == adjusted_weight(policy_def, finding)
    IN  IF rule = NoRule
        THEN [acc EXCEPT !.applied_rules = applied,
                         !.risk_score = @ + DEFAULT_RULE_WEIGHT]
        ELSE IF rule.action = "block"
        THEN IF finding.explain_only
                /\ (finding.type = "cmd" \/ adj < DEFAULT_RULE_WEIGHT \div 2)
             THEN [acc EXCEPT !.applied_rules = applied, !.risk_score = @ + adj]
             ELSE [acc EXCEPT !.applied_rules = applied, !.risk_score = @ + adj,
                              !.blocked = TRUE,
                              !.safe_message_key =
                                  IF @ # None THEN @ ELSE rule.safe_message]
        ELSE [acc EXCEPT !.applied_rules = applied, !.risk_score = @ + adj,
                         !.safe_message_key =
                             IF rule.safe_message # None /\ @ = None
                             THEN rule.safe_message ELSE @]

\* mutant: the downgrade threshold is compared with the rule's base weight
evaluate_step_base_threshold(acc, finding, policy_def, bypass) ==
    LET rule == rules_by_id(policy_def.rules, finding.rule_id)
        applied == Append(acc.applied_rules, finding.rule_id)
        adj == adjusted_weight(policy_def, finding)
    IN  IF rule = NoRule
        THEN [acc EXCEPT !.applied_rules = applied,
                         !.risk_score = @ + DEFAULT_RULE_WEIGHT]
        ELSE IF rule.action = "block"
        THEN IF bypass /\ finding.explain_only
                /\ (finding.type = "cmd"
                    \/ Max(rule.risk_weight, 0) < DEFAULT_RULE_WEIGHT \div 2)
             THEN [acc EXCEPT !.applied_rules = applied, !.risk_score = @ + adj]
             ELSE [acc EXCEPT !.applied_rules = applied, !.risk_score = @ + adj,
                              !.blocked = TRUE,
                              !.safe_message_key =
                                  IF @ # None THEN @ ELSE rule.safe_message]
        ELSE [acc EXCEPT !.applied_rules = applied, !.risk_score = @ + adj,
                         !.safe_message_key =
                             IF rule.safe_message # None /\ @ = None
                             THEN rule.safe_message ELSE @]

\* one iteration of "for finding in findings" (policy.py 377-411)
evaluate_step(acc, finding, policy_def, bypass) ==
    LET rule == rules_by_id(policy_def.rules, finding.rule_id)
        applied == Append(acc.applied_rules, finding.rule_id)
        adj == adjusted_weight(policy_def, finding)
    IN  IF rule = NoRule
        THEN \* unknown rule: default weight, continue
             [acc EXCEPT !.applied_rules = applied,
                         !.risk_score = @ + DEFAULT_RULE_WEIGHT]
        ELSE IF rule.action = "block"
        THEN IF bypass /\ finding.explain_only
                /\ (finding.type = "cmd" \/ adj < DEFAULT_RULE_WEIGHT \div 2)
             THEN \* continue: the block is downgraded
                  [acc EXCEPT !.applied_rules = applied, !.risk_score = @ + adj]
             ELSE [acc EXCEPT !.applied_rules = applied, !.risk_score = @ + adj,
                              !.blocked = TRUE,
                              !.safe_message_key =
                                  IF @ # None THEN @ ELSE rule.safe_message]
        ELSE [acc EXCEPT !.applied_rules = applied, !.risk_score = @ + adj,
                         !.safe_message_key =
                             IF rule.safe_message # None /\ @ = None
                             THEN rule.safe_message ELSE @]

RECURSIVE evaluate_loop(_, _, _, _)
evaluate_loop(acc, fs, policy_def, bypass) ==
    IF fs = <<>> THEN acc
    ELSE evaluate_loop(evaluate_step(acc, Head(fs), policy_def, bypass),
                       Tail(fs), policy_def, bypass)

\* policy.evaluate (policy.py 344-423)
evaluate(policy_def, fs, bypass) ==
    LET acc == evaluate_loop(NoDecision, fs, policy_def, bypass)
    IN  [blocked |-> acc.blocked,
         risk_score |-> Min(acc.risk_score, 100),
         applied_rules |-> acc.applied_rules,
         safe_message_key |->
             IF acc.blocked /\ acc.safe_message_key = None
             THEN "blocked" ELSE acc.safe_message_key]

----------------------------------------------------------------------------
(* app/pipeline.py : Finding *)

\* Finding(rule_id, action, type, detail, context, explain_only); of the
\* detail map the model keeps span, kind, replacement, masked and rule_id.
Finding(rule_id, action, type, kind, span, replacement, masked, context, eo) ==
    [rule_id |-> rule_id, action |-> action, type |-> type,
     detail |-> [span |-> span, kind |-> kind, replacement |-> replacement,
                 masked |-> masked, rule_id |-> rule_id],
     context |-> context, explain_only |-> eo]

----------------------------------------------------------------------------
(* app/actions.py *)

\* replacement texts are single tokens, distinct from every text character
MASK_PLACEHOLDER == <<"[REDACTED]">>

URL_PLACEHOLDER == <<"[redacted-url]">>

GENERIC_PLACEHOLDER == <<"[redacted]">>

\* text[a:b] of Python for 0 <= a
PySlice(text, a, b) == SubSeq(text, a + 1, Min(b, Len(text)))

\* truth value of an optional string: None and "" are falsy
Truthy(text) == text # NoText /\ text # <<>>

\* _select_replacement (actions.py 54-67); NoText means "no replacement"
select_replacement(action, detail) ==
    IF action = "mask"
    THEN IF Truthy(detail.replacement) THEN detail.replacement
         ELSE IF Truthy(detail.masked) THEN detail.masked
         ELSE MASK_PLACEHOLDER
    ELSE IF action = "delink"
    THEN IF Truthy(detail.replacement) THEN detail.replacement
         ELSE URL_PLACEHOLDER
    ELSE IF action = "annotate"
    THEN <<"[flagged:", detail.rule_id, "]">>
    ELSE IF action = "remove" THEN <<>>
    ELSE IF action = "block" THEN NoText
    ELSE IF Truthy(detail.replacement) THEN detail.replacement
         ELSE IF Truthy(detail.masked) THEN detail.masked
         ELSE GENERIC_PLACEHOLDER

\* _collect_replacements (actions.py 38-51): (start, end, replacement) triples
RECURSIVE collect_replacements(_)
collect_replacements(fs) ==
    IF fs = <<>> THEN <<>>
    ELSE LET f == Head(fs)
             rest == collect_replacements(Tail(fs))
             repl == select_replacement(f.action, f.detail)
         IN  IF f.detail.span = NoSpan THEN rest
             ELSE IF repl = NoText THEN rest
             ELSE <<[start |-> f.detail.span[1], end |-> f.detail.span[2],
                     repl |-> repl]>> \o rest

\* sorted(replacements, key=lambda item: item[0]) : stable, ascending start
RECURSIVE InsertByStart(_, _)
InsertByStart(sorted, item) ==
    IF sorted = <<>> THEN <<item>>
    ELSE IF Head(sorted).start <= item.start
         THEN <<Head(sorted)>> \o InsertByStart(Tail(sorted), item)
         ELSE <<item>> \o sorted

RECURSIVE SortedByStart(_)
SortedByStart(replacements) ==
    IF replacements = <<>> THEN <<>>
    ELSE InsertByStart(SortedByStart(SubSeq(replacements, 1, Len(replacements) - 1)),
                       replacements[Len(replacements)])

\* mutant: a replacement that starts where the last one ended is skipped too
replacement_step_skips_adjacent(st, text, item) ==
    IF item.start <= st.cursor THEN st
    ELSE [parts |-> st.parts \o PySlice(text, st.cursor, item.start) \o item.repl,
          cursor |-> Max(st.cursor, item.end),
          applied |-> Append(st.applied, item)]

\* one iteration of the cursor walk (actions.py 77-82); "applied" records
\* the replacements that were not skipped
replacement_step(st, text, item) ==
    IF item.start < st.cursor THEN st
    ELSE [parts |-> st.parts \o PySlice(text, st.cursor, item.start) \o item.repl,
          cursor |-> Max(st.cursor, item.end),
          applied |-> Append(st.applied, item)]

RECURSIVE replacement_walk(_, _, _)
replacement_walk(st, text, ordered) ==
    IF ordered = <<>> THEN st
    ELSE replacement_walk(replacement_step(st, text, Head(ordered)), text,
                          Tail(ordered))

walk_replacements(text, replacements) ==
    replacement_walk([parts |-> <<>>, cursor |-> 0, applied |-> <<>>], text,
                     SortedByStart(replacements))

\* _apply_replacements (actions.py 70-84)
apply_replacements(text, replacements) ==
    IF replacements = <<>> THEN text
    ELSE LET st == walk_replacements(text, replacements)
         IN  st.parts \o PySlice(text, st.cursor, Len(text))

\* an entry of the catalog: present is FALSE when the key is missing (or
\* maps to an empty dict); title / description are None when absent
SafeMessageEntry(present, title, description) ==
    [present |-> present, title |-> title, description |-> description]

NoEntry == SafeMessageEntry(FALSE, None, None)

DEFAULT_SAFE_MESSAGE == "Response blocked due to policy violation."

\* _render_safe_message (actions.py 87-94); the rendered string
\* f"{title}: {description}" is the token sequence <<title, ": ", description>>
render_safe_message(messages, key) ==
    LET get(k) == IF k \in DOMAIN messages THEN messages[k] ELSE NoEntry
        byKey == get(IF key = None THEN "" ELSE key)
        entry == IF byKey.present THEN byKey ELSE get("blocked")
        title == IF entry.present THEN entry.title ELSE None
        description == IF entry.present THEN entry.description ELSE None
    IN  IF title # None /\ description # None
        THEN <<title, ": ", description>>
        ELSE IF description # None THEN <<description>>
        ELSE IF title # None THEN <<title>>
        ELSE <<DEFAULT_SAFE_MESSAGE>>

\* mutant: a blocked decision still returns the rewritten text
apply_actions_ignores_block(messages, text, fs, dec) ==
    apply_replacements(text, collect_replacements(fs))

\* apply_actions (actions.py 20-35); messages is what _safe_messages() reads
apply_actions(messages, text, fs, dec) ==
    IF dec.blocked
    THEN render_safe_message(messages, dec.safe_message_key)
    ELSE apply_replacements(text, collect_replacements(fs))

\* the catalogs a deployment can have: no file, a full file, a file without
\* the "blocked" entry and with a title-less entry
SafeMessageCatalogs ==
    { [k \in {} |-> NoEntry],
      [k \in {"blocked", "m1"} |->
          IF k = "blocked"
          THEN SafeMessageEntry(TRUE, "Blocked", "Policy violation")
          ELSE SafeMessageEntry(TRUE, "Secret", "Credentials removed")],
      [k \in {"m1"} |-> SafeMessageEntry(TRUE, None, "Credentials removed")] }

----------------------------------------------------------------------------
(* app/parser.py : segments and finding context *)

Segment(type, start, end, explain_only) ==
    [type |-> type, start |-> start, end |-> end, explain_only |-> explain_only]

\* "no segment found"
NoSegment == Segment(None, 0, 0, FALSE)

\* ParsedContent.get_segment_at_offset (parser.py 113-125)
RECURSIVE get_segment_at_offset(_, _)
get_segment_at_offset(segs, offset) ==
    IF segs = <<>> THEN NoSegment
    ELSE IF Head(segs).start <= offset /\ offset < Head(segs).end THEN Head(segs)
    ELSE get_segment_at_offset(Tail(segs), offset)

\* ParsedContent.get_segments_in_range (parser.py 127-142)
get_segments_in_range(segs, start, end) ==
    SelectSeq(segs, LAMBDA s : s.start < end /\ s.end > start)

\* get_context_for_finding (parser.py 521-548)
get_context_for_finding(finding_start, finding_end, segs) ==
    LET primary     == get_segment_at_offset(segs, finding_start)
        overlapping == get_segments_in_range(segs, finding_start, finding_end)
        segment     == IF primary # NoSegment THEN primary
                       ELSE IF overlapping # <<>> THEN overlapping[1]
                       ELSE NoSegment
    IN  IF segment = NoSegment THEN [context |-> "text", explain_only |-> FALSE]
        ELSE [context |-> segment.type, explain_only |-> segment.explain_only]

\* the ParsedContent run_pipeline builds itself when feature_context_parsing
\* is off (pipeline.py 168-183)
single_text_segment(text) ==
    IF text # <<>> THEN <<Segment("text", 0, Len(text), FALSE)>> ELSE <<>>

\* the segmentations run_pipeline continues with: the single text segment, or
\* one code segment over the whole text that is marked explain-only (the two
\* extremes of what parse_content, modelled below, can return)
Segmentations(text) ==
    IF text = <<>> THEN {<<>>}
    ELSE {single_text_segment(text), <<Segment("code", 0, Len(text), TRUE)>>}

----------------------------------------------------------------------------
(* app/parser.py : parse_content *)

\* the character at Python index i
At(text, i) == text[i + 1]

BACKTICK == "U+0060"

\* text[i:] starts with the literal
StartsWith(text, i, literal) ==
    /\ i + Len(literal) <= Len(text)
    /\ \A k \in 1..Len(literal) : At(text, i + k - 1) = literal[k]

\* the first index from i on whose character is in chars, or len(text)
FirstIn(text, i, chars) ==
    LET hits == {j \in i..Len(text) - 1 : At(text, j) \in chars}
    IN  IF hits = {} THEN Len(text)
        ELSE CHOOSE j \in hits : \A h \in hits : j <= h

\* the first index from i on whose character is not in chars, or len(text)
FirstNotIn(text, i, chars) ==
    LET hits == {j \in i..Len(text) - 1 : At(text, j) \notin chars}
    IN  IF hits = {} THEN Len(text)
        ELSE CHOOSE j \in hits : \A h \in hits : j <= h

\* where a match of FENCED_CODE_BLOCK_REGEX (parser.py 17-20) that starts at i
\* ends, or -1: three backticks, word characters, a newline, lazily anything,
\* three backticks
fenced_code_block_match(text, i) ==
    LET fence  == <<BACKTICK, BACKTICK, BACKTICK>>
        nl     == FirstNotIn(text, i + 3, WordChars)
        closes == {k \in nl + 1..Len(text) - 3 : StartsWith(text, k, fence)}
    IN  IF /\ StartsWith(text, i, fence)
           /\ nl < Len(text)
           /\ At(text, nl) = "\n"
           /\ closes # {}
        THEN (CHOOSE k \in closes : \A h \in closes : k <= h) + 3
        ELSE -1

\* INLINE_CODE_REGEX (parser.py 23): a backtick, one or more characters that
\* are neither backtick nor newline, a backtick
inline_code_match(text, i) ==
    LET close == FirstIn(text, i + 1, {BACKTICK, "\n"})
    IN  IF /\ At(text, i) = BACKTICK
           /\ close > i + 1
           /\ close < Len(text)
           /\ At(text, close) = BACKTICK
        THEN close + 1
        ELSE -1

\* MARKDOWN_LINK_REGEX (parser.py 26): [text](url)
markdown_link_match(text, i) ==
    LET bracket == FirstIn(text, i + 1, {"]"})
        paren   == FirstIn(text, bracket + 2, {")"})
    IN  IF /\ At(text, i) = "["
           /\ bracket > i + 1
           /\ StartsWith(text, bracket, <<"]", "(">>)
           /\ paren > bracket + 2
           /\ paren < Len(text)
        THEN paren + 1
        ELSE -1

\* the characters that end a raw URL
RawUrlStops == SpaceChars \cup {"]", ")", ">", "U+0022", "'", BACKTICK}

\* RAW_URL_REGEX (parser.py 27-30): http:// or https://, any case, not after a
\* backtick or a word character, then one or more characters of the URL
raw_url_match(text, i) ==
    LET body == IF StartsWithWord(text, i + 1, <<"h", "t", "t", "p", "s", ":", "/", "/">>)
                THEN i + 8
                ELSE IF StartsWithWord(text, i + 1, <<"h", "t", "t", "p", ":", "/", "/">>)
                THEN i + 7
                ELSE -1
        stop == FirstIn(text, body, RawUrlStops)
    IN  IF /\ body >= 0
           /\ i = 0 \/ At(text, i - 1) \notin WordChars \cup {BACKTICK}
           /\ stop > body
        THEN stop
        ELSE -1

regex_match(regex, text, i) ==
    IF regex = "FENCED_CODE_BLOCK_REGEX" THEN fenced_code_block_match(text, i)
    ELSE IF regex = "INLINE_CODE_REGEX" THEN inline_code_match(text, i)
    ELSE IF regex = "MARKDOWN_LINK_REGEX" THEN markdown_link_match(text, i)
    ELSE raw_url_match(text, i)

\* regex.finditer(text) from index pos on: the (start, end) of the matches,
\* leftmost first, each search resuming where the last match ended
RECURSIVE finditer(_, _, _)
finditer(regex, text, pos) ==
    IF pos >= Len(text) THEN <<>>
    ELSE LET end == regex_match(regex, text, pos)
         IN  IF end >= 0
             THEN <<(<<pos, end>>)>> \o finditer(regex, text, end)
             ELSE finditer(regex, text, pos + 1)

\* any(s <= start < e for s, e in ranges)
InRanges(start, ranges) ==
    \E k \in 1..Len(ranges) : ranges[k][1] <= start /\ start < ranges[k][2]

\* _parse_fenced_code_blocks, _parse_inline_code, _parse_markdown_links
\* (parser.py 258-297): the ranges of the matches
parse_fenced_code_blocks(text) == finditer("FENCED_CODE_BLOCK_REGEX", text, 0)

parse_inline_code(text) == finditer("INLINE_CODE_REGEX", text, 0)

parse_markdown_links(text) == finditer("MARKDOWN_LINK_REGEX", text, 0)

\* _parse_raw_urls (parser.py 300-315)
parse_raw_urls(text, exclude_ranges) ==
    SelectSeq(finditer("RAW_URL_REGEX", text, 0),
              LAMBDA m : ~InRanges(m[1], exclude_ranges))

\* text.strip() is not empty
HasNonSpace(text) == \E k \in 1..Len(text) : text[k] \notin SpaceChars

\* one iteration of the loop that fills the gaps (parser.py 397-415)
build_step(st, text, special) ==
    IF special.start < st.current_pos THEN st
    ELSE [segments |->
              (IF /\ special.start > st.current_pos
                  /\ HasNonSpace(PySlice(text, st.current_pos, special.start))
               THEN Append(st.segments,
                           Segment("text", st.current_pos, special.start, FALSE))
               ELSE st.segments) \o <<special>>,
          current_pos |-> special.end]

RECURSIVE build_walk(_, _, _)
build_walk(st, text, specials) ==
    IF specials = <<>> THEN st
    ELSE build_walk(build_step(st, text, Head(specials)), text, Tail(specials))

\* mutant: the text before a special segment is not made a segment
build_segments_drops_gaps(text, fenced_blocks, inline_codes, md_links, raw_urls) ==
    LET TypedRanges(type, ranges) ==
            [k \in 1..Len(ranges) |-> Segment(type, ranges[k][1], ranges[k][2], FALSE)]
    IN  SortedByStart(TypedRanges("code", fenced_blocks) \o TypedRanges("code", inline_codes)
                        \o TypedRanges("link", md_links) \o TypedRanges("link", raw_urls))

\* _build_segments (parser.py 318-435)
build_segments(text, fenced_blocks, inline_codes, md_links, raw_urls) ==
    LET TypedRanges(type, ranges) ==
            [k \in 1..Len(ranges) |-> Segment(type, ranges[k][1], ranges[k][2], FALSE)]
        code_ranges == fenced_blocks \o inline_codes
        all_special_ranges == code_ranges \o md_links
        special_segments ==
            TypedRanges("code", fenced_blocks)
            \o TypedRanges("code", SelectSeq(inline_codes,
                               LAMBDA m : ~InRanges(m[1], fenced_blocks)))
            \o TypedRanges("link", SelectSeq(md_links,
                               LAMBDA m : ~InRanges(m[1], code_ranges)))
            \o TypedRanges("link", SelectSeq(raw_urls,
                               LAMBDA m : ~InRanges(m[1], all_special_ranges)))
        walked == build_walk([segments |-> <<>>, current_pos |-> 0], text,
                             SortedByStart(special_segments))
    IN  IF /\ walked.current_pos < Len(text)
           /\ HasNonSpace(PySlice(text, walked.current_pos, Len(text)))
        THEN Append(walked.segments,
                    Segment("text", walked.current_pos, Len(text), FALSE))
        ELSE walked.segments

\* EDUCATIONAL_KEYWORDS (parser.py 33-69)
EDUCATIONAL_KEYWORDS ==
    {
     <<"e", "x", "a", "m", "p", "l", "e">>,
     <<"a", "v", "o", "i", "d">>,
     <<"n", "e", "v", "e", "r">>,
     <<"d", "a", "n", "g", "e", "r", "o", "u", "s">>,
     <<"w", "a", "r", "n", "i", "n", "g">>,
     <<"c", "a", "u", "t", "i", "o", "n">>,
     <<"d", "o", "n", "'", "t">>,
     <<"d", "o", " ", "n", "o", "t">>,
     <<"t", "u", "t", "o", "r", "i", "a", "l">>,
     <<"d", "e", "m", "o", "n", "s", "t", "r", "a", "t", "e", "s">>,
     <<"h", "e", "r", "e", "'", "s", " ", "h", "o", "w">>,
     <<"h", "e", "r", "e", " ", "i", "s", " ", "h", "o", "w">>,
     <<"s", "h", "o", "w", "s", " ", "h", "o", "w">>,
     <<"l", "e", "a", "r", "n">>,
     <<"e", "x", "p", "l", "a", "i", "n">>,
     <<"e", "x", "p", "l", "a", "n", "a", "t", "i", "o", "n">>,
     <<"d", "o", " ", "n", "o", "t", " ", "r", "u", "n">>,
     <<"m", "a", "l", "i", "c", "i", "o", "u", "s">>,
     <<"u", "n", "s", "a", "f", "e">>,
     <<"i", "n", "s", "e", "c", "u", "r", "e">>,
     <<"v", "u", "l", "n", "e", "r", "a", "b", "l", "e">>,
     <<"a", "t", "t", "a", "c", "k">>,
     <<"e", "x", "p", "l", "o", "i", "t">>,
     <<"f", "o", "r", " ", "e", "d", "u", "c", "a", "t", "i", "o", "n", "a", "l">>,
     <<"f", "o", "r", " ", "l", "e", "a", "r", "n", "i", "n", "g">>,
     <<"b", "a", "d", " ", "p", "r", "a", "c", "t", "i", "c", "e">>,
     <<"a", "n", "t", "i", "-", "p", "a", "t", "t", "e", "r", "n">>,
     <<"a", "n", "t", "i", "p", "a", "t", "t", "e", "r", "n">>,
     <<"w", "h", "a", "t", " ", "n", "o", "t", " ", "t", "o", " ", "d", "o">>
    }

CONTEXT_WINDOW_SIZE == 200

\* keyword in text
Contains(text, keyword) ==
    \E i \in 0..Len(text) - Len(keyword) : StartsWith(text, i, keyword)

\* _has_educational_keywords (parser.py 146-160)
has_educational_keywords(text) ==
    LET lowered == [k \in 1..Len(text) |-> Lower(text[k])]
    IN  \E keyword \in EDUCATIONAL_KEYWORDS : Contains(lowered, keyword)

\* _get_surrounding_text (parser.py 163-180)
get_surrounding_text(full_text, start, end) ==
    PySlice(full_text, Max(0, start - CONTEXT_WINDOW_SIZE), start) \o <<" ">>
        \o PySlice(full_text, end, Min(Len(full_text), end + CONTEXT_WINDOW_SIZE))

\* no pre-classifier is injected
NoClassifier == [kind |-> "none", label |-> None]

\* PreClassifier() (preclassifier.py 21-29)
HeuristicPreClassifier == [kind |-> "PreClassifier", label |-> None]

\* ModelPreClassifier (preclassifier.py 32-39) around a model that answers
\* label for every text, or raises when label is "raise"
ModelPreClassifier(label) == [kind |-> "ModelPreClassifier", label |-> label]

\* KEYWORDS (preclassifier.py 13)
KEYWORDS ==
    { <<"c", "u", "r", "l">>, <<"w", "g", "e", "t">>,
      <<"p", "o", "w", "e", "r", "s", "h", "e", "l", "l">>,
      <<"k", "u", "b", "e", "c", "t", "l">>, <<"s", "e", "l", "e", "c", "t">>,
      <<"i", "n", "s", "e", "r", "t">>, <<"d", "e", "l", "e", "t", "e">> }

\* classifier.predict(text): the label, or "raise" when the call raises
predict(classifier, text) ==
    IF classifier.kind = "PreClassifier"
    THEN LET lowered == [k \in 1..Len(text) |-> Lower(text[k])]
         IN  IF \E keyword \in KEYWORDS : Contains(lowered, keyword)
             THEN "command" ELSE "text"
    ELSE classifier.label

\* Segment.content of a code segment: group 2 of the fenced block, group 1 of
\* the inline code (parser.py 258-281, 341-363)
code_content(text, segment) ==
    IF fenced_code_block_match(text, segment.start) = segment.end
    THEN PySlice(text, FirstNotIn(text, segment.start + 3, WordChars) + 1,
                 segment.end - 3)
    ELSE PySlice(text, segment.start + 1, segment.end - 1)

\* the labels of a pre-classifier that decide
EducationalLabels == {"educational", "explain_only", "text"}

CommandLabels == {"command", "executable", "malicious"}

\* the value of ml_pred after the try block (parser.py 222-232): None when no
\* pre-classifier is injected or predict raised
ml_prediction(segment, full_text, classifier) ==
    IF classifier = NoClassifier THEN None
    ELSE LET label == predict(classifier, code_content(full_text, segment))
         IN  IF label = "raise" THEN None ELSE label

\* mutant: in shadow mode the pre-classifier is only observed and the
\* heuristic decides
detect_explain_only_shadow_observes_only(segment, full_text, classifier, shadow_mode) ==
    LET heuristic_result ==
            has_educational_keywords(
                get_surrounding_text(full_text, segment.start, segment.end))
        ml_pred == ml_prediction(segment, full_text, classifier)
        final_result ==
            IF shadow_mode THEN heuristic_result
            ELSE IF ml_pred \in EducationalLabels THEN TRUE
            ELSE IF ml_pred \in CommandLabels THEN FALSE
            ELSE heuristic_result
    IN  IF segment.type # "code"
        THEN [final_result |-> FALSE, shadow |-> <<>>]
        ELSE [final_result |-> final_result,
              shadow |-> IF shadow_mode /\ ml_pred # None
                         THEN <<[ml_pred |-> ml_pred,
                                 heuristic |-> heuristic_result,
                                 final |-> final_result]>>
                         ELSE <<>>]

\* _detect_explain_only (parser.py 191-255): the value returned and what is
\* passed to metrics.observe_ml_shadow
detect_explain_only(segment, full_text, classifier, shadow_mode) ==
    LET heuristic_result ==
            has_educational_keywords(
                get_surrounding_text(full_text, segment.start, segment.end))
        ml_pred == ml_prediction(segment, full_text, classifier)
        final_result ==
            IF ml_pred \in EducationalLabels THEN TRUE
            ELSE IF ml_pred \in CommandLabels THEN FALSE
            ELSE heuristic_result
    IN  IF segment.type # "code"
        THEN [final_result |-> FALSE, shadow |-> <<>>]
        ELSE [final_result |-> final_result,
              shadow |-> IF shadow_mode /\ ml_pred # None
                         THEN <<[ml_pred |-> ml_pred,
                                 heuristic |-> heuristic_result,
                                 final |-> final_result]>>
                         ELSE <<>>]

\* the segments parse_content builds before explain-only detection (parser.py
\* 467-486)
built_segments(text) ==
    IF text = <<>> THEN <<>>
    ELSE LET fenced_blocks == parse_fenced_code_blocks(text)
             inline_codes  == parse_inline_code(text)
             md_links      == parse_markdown_links(text)
             raw_urls      == parse_raw_urls(text,
                                  fenced_blocks \o inline_codes \o md_links)
         IN  build_segments(text, fenced_blocks, inline_codes, md_links,
                            raw_urls)

\* parse_content (parser.py 438-502) with detect_explain_only_enabled=True:
\* the segments
parse_content(text, classifier, shadow_mode) ==
    LET built == built_segments(text)
    IN  [k \in 1..Len(built) |->
            [built[k] EXCEPT
                !.explain_only =
                    detect_explain_only(built[k], text, classifier,
                                        shadow_mode).final_result]]

----------------------------------------------------------------------------
(* app/ml/preclassifier.py : load_preclassifier *)

\* a model file and its manifest: whether the file exists, where its resolved
\* path lies, what the manifest records against the file's SHA-256 and size,
\* whether joblib can load the file, what the loaded model predicts
ModelArtifact(exists, location, manifest, loadable, label) ==
    [exists |-> exists, location |-> location, manifest |-> manifest,
     loadable |-> loadable, label |-> label]

\* what a manifest says about a value of the file: "match", "mismatch", or
\* "absent" when it has no such key
ManifestFields == {"absent", "match", "mismatch"}

Manifests ==
    {[exists |-> FALSE, sha256 |-> "absent", size_bytes |-> "absent"]}
        \cup {[exists |-> TRUE, sha256 |-> h, size_bytes |-> z] :
                 h \in ManifestFields, z \in ManifestFields}

\* _verify_model_integrity (preclassifier.py 51-75): the exception it raises,
\* or None
verify_model_integrity(artifact) ==
    IF ~artifact.manifest.exists THEN "FileNotFoundError"
    ELSE IF \/ artifact.manifest.sha256 = "mismatch"
            \/ artifact.manifest.size_bytes = "mismatch"
    THEN "ModelIntegrityError"
    ELSE None

\* load_preclassifier (preclassifier.py 78-120): the exception it raised or
\* None, the classifier it returned, whether it called joblib.load
load_preclassifier(artifact, enforce_integrity) ==
    IF ~artifact.exists
    THEN [raised |-> None, classifier |-> HeuristicPreClassifier,
          joblib_load |-> FALSE]
    ELSE IF artifact.location # "beneath"
    THEN [raised |-> "ValueError", classifier |-> NoClassifier,
          joblib_load |-> FALSE]
    ELSE IF enforce_integrity /\ verify_model_integrity(artifact) # None
    THEN [raised |-> verify_model_integrity(artifact),
          classifier |-> NoClassifier, joblib_load |-> FALSE]
    ELSE IF artifact.loadable
    THEN [raised |-> None, classifier |-> ModelPreClassifier(artifact.label),
          joblib_load |-> TRUE]
    ELSE [raised |-> None, classifier |-> HeuristicPreClassifier,
          joblib_load |-> TRUE]

\* run_pipeline from the normalized text to the parsed content (pipeline.py
\* 141-185): the text, the segments, the status the load metric is observed
\* with (None when feature_ml_preclf is off)
parse_stage(text, stg, artifact) ==
    LET loaded == load_preclassifier(artifact, stg.enforce_model_integrity)
        classifier ==
            IF stg.feature_ml_preclf /\ loaded.raised = None
            THEN loaded.classifier ELSE NoClassifier
    IN  [text |-> text,
         segments |-> IF stg.feature_context_parsing
                      THEN parse_content(text, classifier, stg.shadow_mode)
                      ELSE single_text_segment(text),
         load_status |-> IF ~stg.feature_ml_preclf THEN None
                         ELSE IF loaded.raised = None THEN "success"
                         ELSE "fail"]

----------------------------------------------------------------------------
(* app/policy.py : load_policy, select_policy *)

EmptyPolicy ==
    [rules |-> <<>>, context_settings |-> DefaultContextSettings,
     allowlist |-> <<>>]

\* a rule pattern re.compile rejects, and one it accepts (and which, like
\* "x*", can match the empty string)
InvalidPattern == "("

ValidPattern == "x*"

\* a policy with one rule for each detector that has scanners for it
StandardPolicy ==
    [rules |-> << PolicyRule("PII-EMAIL", "pii", "mask", "email", None, 10, None),
                  PolicyRule("SECRET-AWS", "secret", "block", "aws_access_key",
                             None, 60, "m1"),
                  PolicyRule("URL-IP", "url", "delink", "ip", None, 10, None),
                  PolicyRule("CMD-CURL", "cmd", "block", "curl_pipe", None, 60,
                             None) >>,
     context_settings |-> DefaultContextSettings, allowlist |-> <<>>]

\* two rules share the id "R"; the later one is a custom pattern
DuplicateIdPolicy ==
    [rules |-> << PolicyRule("R", "pii", "block", "email", None, 10, None),
                  PolicyRule("R", "cmd", "mask", None, ValidPattern, 10, None) >>,
     context_settings |-> DefaultContextSettings, allowlist |-> <<>>]

\* a secret rule whose pattern does not compile
BadPatternPolicy ==
    [rules |-> << PolicyRule("PII-EMAIL", "pii", "mask", "email", None, 10, None),
                  PolicyRule("SECRET-RE", "secret", "mask", None, InvalidPattern,
                             10, None),
                  PolicyRule("CMD-CURL", "cmd", "block", "curl_pipe", None, 60,
                             None) >>,
     context_settings |-> DefaultContextSettings, allowlist |-> <<>>]

\* what the policy file can hold. "single": a mapping without the key
\* "policies"; "multi": policies strict and lax; "no_policies": policies: {};
\* "empty": yaml.safe_load gives None; "malformed": not YAML, or a rule
\* without the key "id"
PolicyFileContents ==
    {"single", "multi", "no_policies", "empty", "malformed"}

\* the contents from which load_policy builds a PolicyStore
ParsableContents == {"single", "multi", "no_policies"}

\* the PolicyStore built from a content: its definitions in insertion order
PolicyStore(content) ==
    IF content = "single"
    THEN <<[policy_id |-> "default", definition |-> StandardPolicy]>>
    ELSE IF content = "multi"
    THEN <<[policy_id |-> "strict", definition |-> BadPatternPolicy],
           [policy_id |-> "lax", definition |-> DuplicateIdPolicy]>>
    ELSE <<>>

PolicyFiles ==
    {NoFile} \cup {[exists |-> TRUE, mtime |-> m, content |-> c] :
                      m \in 1..MaxMtime, c \in PolicyFileContents}

\* mutant: the cache entry is written before the content is parsed
load_policy_caches_before_parsing(cache, file, fresh) ==
    IF ~file.exists
    THEN [raised |-> TRUE, store |-> None, instance |-> 0, parsed |-> FALSE,
          cache |-> cache]
    ELSE IF cache.cached /\ cache.mtime = file.mtime
    THEN [raised |-> FALSE, store |-> cache.content,
          instance |-> cache.instance, parsed |-> FALSE, cache |-> cache]
    ELSE [raised |-> file.content \notin ParsableContents,
          store |-> file.content, instance |-> fresh, parsed |-> TRUE,
          cache |-> [cached |-> TRUE, mtime |-> file.mtime,
                     content |-> file.content, instance |-> fresh]]

\* mutant: the cached store is found but a new one is built all the same
load_policy_ignores_cache(cache, file, fresh) ==
    IF ~file.exists
    THEN [raised |-> TRUE, store |-> None, instance |-> 0, parsed |-> FALSE,
          cache |-> cache]
    ELSE IF file.content \notin ParsableContents
    THEN [raised |-> TRUE, store |-> None, instance |-> 0, parsed |-> TRUE,
          cache |-> cache]
    ELSE [raised |-> FALSE, store |-> file.content, instance |-> fresh,
          parsed |-> TRUE,
          cache |-> [cached |-> TRUE, mtime |-> file.mtime,
                     content |-> file.content, instance |-> fresh]]

\* load_policy (policy.py 219-295) with use_cache=True: whether it raised, the
\* store it returned (the content it was parsed from and which PolicyStore
\* object it is), whether the file was read and parsed, and the cache entry of
\* the path afterwards; fresh is the identity a newly built store gets
load_policy(cache, file, fresh) ==
    IF ~file.exists
    THEN [raised |-> TRUE, store |-> None, instance |-> 0, parsed |-> FALSE,
          cache |-> cache]
    ELSE IF cache.cached /\ cache.mtime = file.mtime
    THEN [raised |-> FALSE, store |-> cache.content,
          instance |-> cache.instance, parsed |-> FALSE, cache |-> cache]
    ELSE IF file.content \notin ParsableContents
    THEN [raised |-> TRUE, store |-> None, instance |-> 0, parsed |-> TRUE,
          cache |-> cache]
    ELSE [raised |-> FALSE, store |-> file.content, instance |-> fresh,
          parsed |-> TRUE,
          cache |-> [cached |-> TRUE, mtime |-> file.mtime,
                     content |-> file.content, instance |-> fresh]]

\* invalidate_policy_cache (policy.py 426-433), for the path or for all paths
invalidate_policy_cache(cache) == NoCacheEntry

\* the identity of a PolicyStore built now (policy.py 289): one that no
\* object still referenced has
FreshInstance(cache, last) ==
    CHOOSE i \in 1..3 : i # cache.instance /\ i # last.instance

\* next(iter(...)) of an empty store raises StopIteration
NoPolicy == [raised |-> "StopIteration"]

\* select_policy (policy.py 298-301)
select_policy(store, policy_id) ==
    LET named(id) == SelectSeq(store, LAMBDA d : d.policy_id = id)
    IN  IF named(policy_id) # <<>> THEN named(policy_id)[1].definition
        ELSE IF named("default") # <<>> THEN named("default")[1].definition
        ELSE IF store # <<>> THEN store[1].definition
        ELSE NoPolicy

----------------------------------------------------------------------------
(* app/detectors *)

\* scan_all's tuple of detectors (detectors/__init__.py 22-28)
Detectors == <<"pii", "exfil", "secret", "url", "cmd">>

\* the detectors whose _run_scanner compiles rule.pattern
\* (secrets.py 58-59, url.py 69-70, cmd.py 49-50)
PatternDetectors == {"secret", "url", "cmd"}

\* the keys of PHONE_PATTERNS (pii.py 23-35)
PHONE_PATTERNS ==
    {"phone_tr", "phone_en", "phone_de", "phone_fr", "phone_es", "phone_it",
     "phone_pt", "phone_hi", "phone_zh", "phone_ru", "phone"}

\* the kinds each detector names: the branches of pii.scan (pii.py 48-63) and
\* of exfil.scan (exfil.py 29-34), the keys of the scanners tables
\* (secrets.py 62-75, url.py 73-83, cmd.py 52-63)
ScannerKinds(detector) ==
    IF detector = "pii"
    THEN {"email", "iban_tr", "iban_de", "tckn", "pan", "ipv4"} \cup PHONE_PATTERNS
    ELSE IF detector = "exfil" THEN {"large_base64", "large_hex"}
    ELSE IF detector = "secret"
    THEN {"jwt", "aws_access_key", "aws_secret_key", "openai_api_key",
          "github_token", "slack_token", "stripe_key", "twilio_key", "azure_sas",
          "gcp_service_account", "pem_private_key", "high_entropy"}
    ELSE IF detector = "url"
    THEN {"ip", "ip_literal", "data", "data_uri", "risky_extension",
          "executable_ext", "cred_in_url", "shortener", "suspicious_tld"}
    ELSE {"curl_pipe", "wget_pipe", "powershell_encoded", "invoke_webrequest",
          "powershell_iwr", "rm_rf", "reg_add", "certutil", "mshta", "rundll32"}

\* a kind that starts with "phone" and is no key of PHONE_PATTERNS
UnlistedPhoneKind == "phone_xx"

\* rule.kind and rule.kind.startswith("phone") (pii.py 50), on the kinds of
\* the modelled policies
starts_with_phone(kind) == kind \in PHONE_PATTERNS \cup {UnlistedPhoneKind}

\* PolicyDefinition.iter_rules (policy.py 99-102)
iter_rules(policy_def, rule_type) ==
    SelectSeq(policy_def.rules, LAMBDA r : r.type = rule_type)

\* the rule has a truthy pattern and its detector compiles it
UsesPattern(rule) ==
    rule.type \in PatternDetectors /\ rule.pattern \notin {None, ""}

\* re.compile(rule.pattern) raises re.error in this detector's scan
detector_raises(policy_def, detector) ==
    \E i \in 1..Len(policy_def.rules) :
        /\ policy_def.rules[i].type = detector
        /\ UsesPattern(policy_def.rules[i])
        /\ policy_def.rules[i].pattern = InvalidPattern

\* the spans [s, e] a scanner can report on the text; a compiled pattern can
\* also match the empty string
MatchSpans(text, rule) ==
    {<<s, e>> \in (0..Len(text)) \X (0..Len(text)) :
        IF UsesPattern(rule) THEN s <= e ELSE s < e}

\* the rule reaches a scanner: the branches of pii.scan (pii.py 48-65, where
\* _scan_phone falls back to PHONE_PATTERNS["phone"], pii.py 85) and of
\* exfil.scan (exfil.py 29-34), the compiled pattern or the scanners table of
\* _run_scanner (secrets.py 54-79, url.py 65-87, cmd.py 45-68)
has_scanner(rule) ==
    IF rule.type = "pii"
    THEN rule.kind \in ScannerKinds("pii") \/ starts_with_phone(rule.kind)
    ELSE IF rule.type = "exfil" THEN rule.kind \in ScannerKinds("exfil")
    ELSE UsesPattern(rule) \/ rule.kind \in ScannerKinds(rule.type)

\* the match lists one rule can get: none or one match; a rule that reaches
\* no scanner gets none
MatchLists(text, rule) ==
    IF ~has_scanner(rule)
    THEN {<<>>}
    ELSE {<<>>} \cup {<<sp>> : sp \in MatchSpans(text, rule)}

\* the replacement text the detector puts in the detail of its matches
DetectorReplacement(detector) ==
    IF detector = "pii" THEN <<"[masked-pii]">>
    ELSE IF detector = "exfil" THEN <<"[base64-blob]">>
    ELSE IF detector = "secret" THEN <<"[secret]">>
    ELSE IF detector = "url" THEN <<"[redacted-url]">>
    ELSE <<"[command-blocked]">>

\* AllowlistEntry (policy.py 30-38); value and regex are NoText when absent.
\* A regex is one of literal characters: compiled with re.IGNORECASE, its
\* search finds the characters anywhere in the candidate, whatever their case
AllowlistEntry(value, regex, rule_types, rule_kinds, rule_ids, tenants) ==
    [value |-> value, regex |-> regex, rule_types |-> rule_types,
     rule_kinds |-> rule_kinds, rule_ids |-> rule_ids, tenants |-> tenants]

\* regex.search(candidate) for a regex of literal characters
regex_search(regex, candidate) ==
    \E i \in 1..Len(candidate) - Len(regex) + 1 :
        \A k \in 1..Len(regex) : Lower(candidate[i + k - 1]) = Lower(regex[k])

\* mutant: the tenants of the entry are not looked at
entry_matches_any_tenant(entry, candidate, rule_type, rule_kind, rule_id, tenant) ==
    IF entry.rule_types # {} /\ rule_type \notin entry.rule_types THEN FALSE
    ELSE IF entry.rule_kinds # {}
            /\ (rule_kind = None \/ rule_kind \notin entry.rule_kinds) THEN FALSE
    ELSE IF entry.rule_ids # {} /\ rule_id \notin entry.rule_ids THEN FALSE
    ELSE IF entry.value # NoText /\ candidate = entry.value THEN TRUE
    ELSE entry.regex # NoText /\ regex_search(entry.regex, candidate)

\* AllowlistEntry.matches (policy.py 40-62)
entry_matches(entry, candidate, rule_type, rule_kind, rule_id, tenant) ==
    IF entry.rule_types # {} /\ rule_type \notin entry.rule_types THEN FALSE
    ELSE IF entry.rule_kinds # {}
            /\ (rule_kind = None \/ rule_kind \notin entry.rule_kinds) THEN FALSE
    ELSE IF entry.rule_ids # {} /\ rule_id \notin entry.rule_ids THEN FALSE
    ELSE IF entry.tenants # {} /\ (tenant = None \/ tenant \notin entry.tenants)
    THEN FALSE
    ELSE IF entry.value # NoText /\ candidate = entry.value THEN TRUE
    ELSE entry.regex # NoText /\ regex_search(entry.regex, candidate)

\* PolicyDefinition.is_allowlisted (policy.py 108-124), reached through
\* common.is_allowlisted (detectors/common.py 43-53) with the tenant of the
\* request metadata
is_allowlisted(policy_def, rule, candidate, tenant) ==
    \E i \in 1..Len(policy_def.allowlist) :
        entry_matches(policy_def.allowlist[i], candidate, rule.type, rule.kind,
                      rule.id, tenant)

\* common.build_findings (detectors/common.py 56-75) for one rule; a match is
\* the span of the text the scanner matched, its value the text in the span
build_findings(policy_def, rule, text, matches, tenant) ==
    LET kept == SelectSeq(matches,
                    LAMBDA sp : ~is_allowlisted(policy_def, rule,
                                                PySlice(text, sp[1], sp[2]), tenant))
    IN  [i \in 1..Len(kept) |->
            Finding(rule.id, rule.action, rule.type, rule.kind, kept[i],
                    DetectorReplacement(rule.type), DetectorReplacement(rule.type),
                    "text", FALSE)]

\* every way to give each of the rules a match list
RECURSIVE MatchChoices(_, _)
MatchChoices(text, rules) ==
    IF rules = <<>> THEN {<<>>}
    ELSE {<<m>> \o rest : m \in MatchLists(text, Head(rules)),
                          rest \in MatchChoices(text, Tail(rules))}

\* the scan function of a detector: the findings of its rules, in rule order
RECURSIVE scan(_, _, _, _, _)
scan(policy_def, text, tenant, rules, chosen) ==
    IF rules = <<>> THEN <<>>
    ELSE build_findings(policy_def, Head(rules), text, Head(chosen), tenant)
             \o scan(policy_def, text, tenant, Tail(rules), Tail(chosen))

----------------------------------------------------------------------------
(* Input domains of the direct calls to evaluate and apply_actions *)

EvalRuleWeights == {-5, 4, 60}

EvalContextSettings ==
    {DefaultContextSettings, [DefaultContextSettings EXCEPT !.enabled = FALSE]}

\* one or two rules; the second one repeats the id R1 or introduces R2
EvalPolicies ==
    LET first == {PolicyRule("R1", "cmd", a, None, None, w, None) :
                    a \in {"block", "mask"}, w \in EvalRuleWeights}
        second == {PolicyRule(i, "url", "block", None, None, 10, "m1") :
                    i \in {"R1", "R2"}}
    IN  {[rules |-> rs, context_settings |-> cs, allowlist |-> <<>>] :
            rs \in {<<r>> : r \in first} \cup {<<r, q>> : r \in first, q \in second},
            cs \in EvalContextSettings}

EvalFindings ==
    {Finding(i, "mask", t, None, <<0, 1>>, NoText, NoText, c, e) :
        i \in {"R1", "R2"}, t \in {"cmd", "url"},
        c \in {"text", "code", "link"}, e \in BOOLEAN}

NoSettings == [allow_explain_only_bypass |-> FALSE]

\* no request is being served: the direct calls do not go through run_pipeline
NoPipeline ==
    /\ request = NoRequest
    /\ segments = <<>>
    /\ policy_file = NoFile
    /\ policy_cache = NoCacheEntry
    /\ detectors_run = <<>>
    /\ error = None

NoCache == last_load = NoLoad /\ loaders = <<>>

NoNormalize == normalized = <<>>

NoGuard ==
    /\ guard_semaphore = 0
    /\ guard_requests = <<>>

NoMl ==
    /\ model_artifact = None
    /\ ml_preclassifier = None
    /\ ml_preclf_load_total = <<>>
    /\ ml_shadow_total = <<>>

NoSiem ==
    /\ siem_config = None
    /\ siem_queue = <<>>
    /\ siem_calls = <<>>
    /\ siem_flushes = <<>>
    /\ siem_metrics = None

NoService ==
    /\ NoCache
    /\ NoNormalize
    /\ NoGuard
    /\ NoMl
    /\ NoSiem

InitEval ==
    /\ pc = "idle"
    /\ policy_view \in EvalPolicies
    /\ settings \in {[allow_explain_only_bypass |-> b] : b \in BOOLEAN}
    /\ findings = <<>>
    /\ decision = NoDecision
    /\ parsed_text = <<>>
    /\ response = <<>>
    /\ safe_messages = [k \in {} |-> NoEntry]
    /\ NoPipeline
    /\ NoService

\* the caller puts one more finding on the list it is going to pass
EvalAddFinding ==
    \E f \in EvalFindings :
        /\ pc = "idle"
        /\ Len(findings) < MaxFindings
        /\ findings' = Append(findings, f)
        /\ UNCHANGED <<pc, policy_view, settings, decision, parsed_text,
                       response, safe_messages>>
        /\ UNCHANGED <<pipeline_vars, service_vars>>

\* a direct call decision = evaluate(policy_def, findings=..., allow_explain_only_bypass=...)
EvaluateCall ==
    /\ pc = "idle"
    /\ decision' = evaluate(policy_view, findings,
                            settings.allow_explain_only_bypass)
    /\ pc' = "evaluated"
    /\ UNCHANGED <<policy_view, settings, findings, parsed_text, response,
                   safe_messages>>
    /\ UNCHANGED <<pipeline_vars, service_vars>>

NextEval == EvalAddFinding \/ EvaluateCall

SpecEval == InitEval /\ [][NextEval]_vars

----------------------------------------------------------------------------
(* Claims about policy.evaluate *)

\* the rule evaluate looks up for a finding
RuleOf(f) == rules_by_id(policy_view.rules, f.rule_id)

\* the bypass of the claim: opt-in flag, explain_only, and cmd or weight < 5
BypassGranted(f) ==
    /\ settings.allow_explain_only_bypass
    /\ f.explain_only
    /\ (f.type = "cmd" \/ adjusted_weight(policy_view, f) < 5)

\* C1: blocked is true exactly when some finding's rule has action block and
\* no bypass is granted for that finding.
Inv_C1_BlockedIff ==
    pc = "evaluated" =>
        (decision.blocked <=>
            \E i \in 1..Len(findings) :
                /\ RuleOf(findings[i]).action = "block"
                /\ ~BypassGranted(findings[i]))

\* C1 witness: a bypassed blocking finding next to a non-bypassed one, and
\* a call where the only blocking finding is bypassed.
Wit_C1_Blocked ==
    /\ pc = "evaluated" /\ decision.blocked
    /\ \E i \in 1..Len(findings) :
          RuleOf(findings[i]).action = "block" /\ BypassGranted(findings[i])

Wit_C1_Bypassed ==
    /\ pc = "evaluated" /\ ~decision.blocked
    /\ \E i \in 1..Len(findings) :
          /\ RuleOf(findings[i]).action = "block"
          /\ findings[i].type # "cmd"
          /\ BypassGranted(findings[i])

\* the findings with context and explain_only reset to their defaults
Canonical(fs) ==
    [i \in 1..Len(fs) |-> [fs[i] EXCEPT !.context = "text", !.explain_only = FALSE]]

\* C2: with the bypass flag off, blocked is the same for every list that
\* differs only in context / explain_only (each equals the value of the list
\* with those fields reset), and one blocking rule suffices to block.
Inv_C2_NoBypassIndependent ==
    (pc = "evaluated" /\ ~settings.allow_explain_only_bypass) =>
        /\ decision.blocked = evaluate(policy_view, Canonical(findings), FALSE).blocked
        /\ (\E i \in 1..Len(findings) : RuleOf(findings[i]).action = "block")
               => decision.blocked

\* C2 witness: flag off, an explain-only cmd finding of a blocking rule
Wit_C2_ExplainOnlyStillBlocks ==
    /\ pc = "evaluated" /\ ~settings.allow_explain_only_bypass
    /\ decision.blocked
    /\ \A i \in 1..Len(findings) :
          RuleOf(findings[i]).action = "block" =>
              findings[i].explain_only /\ findings[i].type = "cmd"
                  /\ findings[i].context = "code"

\* what one finding adds to the score (policy.py 383, 389)
Contribution(f) ==
    IF RuleOf(f) = NoRule THEN DEFAULT_RULE_WEIGHT
    ELSE adjusted_weight(policy_view, f)

Wit_C10_Clamped ==
    /\ pc = "evaluated"
    /\ decision.risk_score = 100
    /\ SumSeq([i \in 1..Len(findings) |-> Contribution(findings[i])]) > 100

----------------------------------------------------------------------------
(* Direct calls to apply_actions *)

\* the characters of a text; position i holds the i-th letter, so that every
\* character of a text identifies its position
Letters == <<"a", "b", "c", "d", "e", "f">>

TextOfLen(n) == SubSeq(Letters, 1, n)

TextChars == {Letters[i] : i \in 1..Len(Letters)}

\* spans as a caller may pass them: any pair of integers around the text
ApplySpans == {<<s, e>> : s \in -1..MaxTextLen + 1, e \in -1..MaxTextLen + 1}

ApplyFindings ==
    {Finding("R1", a, "pii", None, sp, NoText, NoText, "text", FALSE) :
        a \in {"mask", "remove", "block"}, sp \in ApplySpans}

ApplyDecisions ==
    {NoDecision, [NoDecision EXCEPT !.blocked = TRUE, !.safe_message_key = "m1"]}

InitApply ==
    /\ pc = "idle"
    /\ policy_view = EmptyPolicy
    /\ settings = NoSettings
    /\ findings = <<>>
    /\ decision = NoDecision
    /\ parsed_text = TextOfLen(MaxTextLen)
    /\ response = <<>>
    /\ safe_messages \in {m \in SafeMessageCatalogs : "blocked" \in DOMAIN m}
    /\ NoPipeline
    /\ NoService

\* the caller puts one more finding on the list it is going to pass
ApplyAddFinding ==
    \E f \in ApplyFindings :
        /\ pc = "idle"
        /\ Len(findings) < MaxFindings
        /\ findings' = Append(findings, f)
        /\ UNCHANGED <<pc, policy_view, settings, decision, parsed_text,
                       response, safe_messages>>
        /\ UNCHANGED <<pipeline_vars, service_vars>>

\* a direct call apply_actions(parsed_text=..., findings=..., decision=...)
ApplyActionsCall ==
    \E dec \in ApplyDecisions :
        /\ pc = "idle"
        /\ decision' = dec
        /\ response' = apply_actions(safe_messages, parsed_text, findings, dec)
        /\ pc' = "applied"
        /\ UNCHANGED <<policy_view, settings, findings, parsed_text,
                       safe_messages>>
        /\ UNCHANGED <<pipeline_vars, service_vars>>

NextApply == ApplyAddFinding \/ ApplyActionsCall

SpecApply == InitApply /\ [][NextApply]_vars

----------------------------------------------------------------------------
(* Claims about apply_actions *)

\* the replacements the cursor walk applied in the observed call
AppliedReplacements ==
    walk_replacements(parsed_text, collect_replacements(findings)).applied

\* 0-based position p of the text lies outside every applied span
OutsideApplied(p) ==
    \A k \in 1..Len(AppliedReplacements) :
        ~(AppliedReplacements[k].start <= p /\ p < AppliedReplacements[k].end)

Occurrences(text, c) == Cardinality({i \in 1..Len(text) : text[i] = c})

FirstIndex(text, c) == CHOOSE i \in 1..Len(text) : text[i] = c

ValidSpan(f) ==
    /\ f.detail.span # NoSpan
    /\ 0 <= f.detail.span[1]
    /\ f.detail.span[1] < f.detail.span[2]
    /\ f.detail.span[2] <= Len(parsed_text)

\* C9: findings with start >= end or a span outside [0, len(text)] are
\* skipped: the output is the one obtained without them.
Cex_C9_InvalidSpansSkipped ==
    (pc = "applied" /\ ~decision.blocked) =>
        response = apply_replacements(parsed_text,
                       collect_replacements(SelectSeq(findings, ValidSpan)))

----------------------------------------------------------------------------
(* app/pipeline.py : run_pipeline *)

\* _validate_pii_findings (pipeline.py 83-132). available: the validator
\* module could be imported; rejected: the indices of the findings the
\* validator does not accept
validate_pii_findings(fs, stg, available, rejected) ==
    IF ~stg.feature_ml_validator \/ fs = <<>> THEN fs
    ELSE IF ~available THEN fs
    ELSE KeepIndices(fs, 1,
             {i \in 1..Len(fs) :
                 ~ /\ fs[i].type = "pii"
                   /\ fs[i].detail.kind = "email"
                   /\ i \in rejected})

\* _annotate_findings_with_context (pipeline.py 57-80)
annotate_findings_with_context(fs, segs) ==
    [i \in 1..Len(fs) |->
        LET span == fs[i].detail.span
            ctx  == get_context_for_finding(span[1], span[2], segs)
        IN  IF span # NoSpan /\ Len(span) >= 2
            THEN [fs[i] EXCEPT !.context = ctx.context,
                               !.explain_only = ctx.explain_only]
            ELSE fs[i]]

\* the response texts of the modelled requests
RequestTexts ==
    { <<"a", "b">>,
      <<"%", "6", "1", "b">>,
      <<"U+200B">> }

\* the metadata of these requests names no tenant
Requests ==
    {[response |-> t, policy_id |-> p, tenant |-> None] :
        t \in RequestTexts, p \in {"default", "lax"}}

PipelineSettings ==
    {[allow_explain_only_bypass |-> b, feature_context_parsing |-> c,
      feature_ml_validator |-> v] : b \in BOOLEAN, c \in BOOLEAN, v \in BOOLEAN}

\* the catalogs of the modelled deployments: a full file, and one without
\* the "blocked" entry
PipelineCatalogs ==
    {m \in SafeMessageCatalogs : "m1" \in DOMAIN m}

Init ==
    /\ pc = "idle"
    /\ policy_view = EmptyPolicy
    /\ settings \in PipelineSettings
    /\ findings = <<>>
    /\ decision = NoDecision
    /\ parsed_text = <<>>
    /\ response = NoText
    /\ safe_messages \in PipelineCatalogs
    /\ request = NoRequest
    /\ segments = <<>>
    /\ policy_file \in PolicyFiles
    /\ policy_cache = NoCacheEntry
    /\ detectors_run = <<>>
    /\ error = None
    /\ NoService

\* the policy file is written, replaced or deleted between two requests
PolicyFileChange ==
    /\ pc = "idle"
    /\ \E f \in PolicyFiles : policy_file' = f
    /\ UNCHANGED <<pc, policy_view, settings, findings, decision, parsed_text,
                   response, safe_messages, request, segments, policy_cache,
                   detectors_run, error>>
    /\ UNCHANGED service_vars

\* run_pipeline up to the policy load (pipeline.py 135-185): normalize, parse
StartPipeline ==
    /\ pc = "idle"
    /\ \E req \in Requests, over_budget \in BOOLEAN :
        LET text == normalize_text(req.response, DEFAULT_MAX_UNESCAPE, over_budget)
        IN  /\ request' = req
            /\ parsed_text' = text
            /\ segments' \in IF settings.feature_context_parsing
                             THEN Segmentations(text)
                             ELSE {single_text_segment(text)}
    /\ pc' = "load_policy"
    /\ UNCHANGED <<policy_view, settings, findings, decision, response,
                   safe_messages, policy_file, policy_cache, detectors_run,
                   error>>
    /\ UNCHANGED service_vars

\* load_policy and select_policy (pipeline.py 186-187)
LoadPolicy ==
    /\ pc = "load_policy"
    /\ LET loaded == load_policy(policy_cache, policy_file,
                             FreshInstance(policy_cache, last_load))
           view   == select_policy(PolicyStore(loaded.store), request.policy_id)
       IN  /\ policy_cache' = loaded.cache
           /\ IF loaded.raised
              THEN pc' = "raised" /\ error' = "load_policy"
                   /\ UNCHANGED policy_view
              ELSE IF view = NoPolicy
              THEN pc' = "raised" /\ error' = "select_policy"
                   /\ UNCHANGED policy_view
              ELSE pc' = "scan" /\ policy_view' = view /\ UNCHANGED error
    /\ UNCHANGED <<settings, findings, decision, parsed_text, response,
                   safe_messages, request, segments, policy_file,
                   detectors_run>>
    /\ UNCHANGED service_vars

\* one iteration of the loop over scan_all (detectors/__init__.py 30-34,
\* pipeline.py 195-214): the next detector is invoked; an exception it raises
\* leaves run_pipeline, a block finding ends the loop
RunDetector ==
    /\ pc = "scan"
    /\ LET detector == Detectors[Len(detectors_run) + 1]
           rules    == iter_rules(policy_view, detector)
       IN  /\ detectors_run' = Append(detectors_run, detector)
           /\ IF detector_raises(policy_view, detector)
              THEN pc' = "raised" /\ error' = "detector" /\ findings' = <<>>
              ELSE \E chosen \in MatchChoices(parsed_text, rules) :
                      LET detector_findings ==
                              scan(policy_view, parsed_text, request.tenant,
                                   rules, chosen)
                      IN  /\ findings' = findings \o detector_findings
                          /\ pc' = IF \/ \E i \in 1..Len(detector_findings) :
                                            detector_findings[i].action = "block"
                                      \/ Len(detectors_run) + 1 = Len(Detectors)
                                   THEN "finish" ELSE "scan"
                          /\ UNCHANGED error
    /\ UNCHANGED <<policy_view, settings, decision, parsed_text, response,
                   safe_messages, request, segments, policy_file, policy_cache>>
    /\ UNCHANGED service_vars

\* the indices of the findings the validator is asked about
ValidatorCandidates(fs) ==
    {i \in 1..Len(fs) : fs[i].type = "pii" /\ fs[i].detail.kind = "email"}

\* run_pipeline after the detector loop (pipeline.py 216-258): validate,
\* annotate, evaluate, apply_actions, PipelineResult
FinishPipeline ==
    /\ pc = "finish"
    /\ \E available \in BOOLEAN, rejected \in SUBSET ValidatorCandidates(findings) :
        LET validated == validate_pii_findings(findings, settings, available,
                                               rejected)
            annotated == annotate_findings_with_context(validated, segments)
            dec       == evaluate(policy_view, annotated,
                                  settings.allow_explain_only_bypass)
        IN  /\ findings' = annotated
            /\ decision' = dec
            /\ response' = apply_actions(safe_messages, parsed_text, annotated, dec)
    /\ pc' = "done"
    /\ UNCHANGED <<policy_view, settings, parsed_text, safe_messages, request,
                   segments, policy_file, policy_cache, detectors_run, error>>
    /\ UNCHANGED service_vars

\* the caller has the PipelineResult or the exception; the locals of the
\* call are gone
ReturnToCaller ==
    /\ pc \in {"done", "raised"}
    /\ pc' = "idle"
    /\ policy_view' = EmptyPolicy
    /\ findings' = <<>>
    /\ decision' = NoDecision
    /\ parsed_text' = <<>>
    /\ response' = NoText
    /\ request' = NoRequest
    /\ segments' = <<>>
    /\ detectors_run' = <<>>
    /\ error' = None
    /\ UNCHANGED <<settings, safe_messages, policy_file, policy_cache>>
    /\ UNCHANGED service_vars

Next ==
    \/ PolicyFileChange
    \/ StartPipeline
    \/ LoadPolicy
    \/ RunDetector
    \/ FinishPipeline
    \/ ReturnToCaller

Spec == Init /\ [][Next]_vars

----------------------------------------------------------------------------
(* Claims about run_pipeline *)

\* a detector returned a finding whose action is block
BlockFindingReturned ==
    \E i \in 1..Len(findings) : findings[i].action = "block"

\* the characters of the request text and of the normalized text
InputChars ==
    {request.response[i] : i \in 1..Len(request.response)}
        \cup {parsed_text[i] : i \in 1..Len(parsed_text)}

\* the replacement texts the findings carry
ReplacementTokens ==
    UNION {{findings[i].detail.replacement[k] :
               k \in 1..Len(findings[i].detail.replacement)} :
           i \in 1..Len(findings)}

\* C3: whenever the decision is blocked, the response run_pipeline returns is
\* the safe message rendered for the decision's safe_message_key (so it
\* depends on the catalog and the key only) and holds no character of the
\* input text and no replacement text of a finding.
Inv_C3_BlockedResponseIsSafeMessage ==
    (pc = "done" /\ decision.blocked) =>
        /\ response = render_safe_message(safe_messages, decision.safe_message_key)
        /\ \A i \in 1..Len(response) :
              response[i] \notin InputChars \cup ReplacementTokens

\* a blocked run whose findings include one that would have been masked
Wit_C3_BlockedWithMaskFinding ==
    /\ pc = "done"
    /\ decision.blocked
    /\ parsed_text # <<>>
    /\ \E i \in 1..Len(findings) : findings[i].action = "mask"

\* C4: the detectors are invoked in the order pii, exfil, secret, url, cmd;
\* once a detector has returned a block finding no later detector is invoked;
\* when the detector loop is over and no detector returned a block finding,
\* all five have been invoked.
Cex_C4_OrderAndShortCircuit ==
    /\ \A i \in 1..Len(detectors_run) : detectors_run[i] = Detectors[i]
    /\ pc = "scan" => ~BlockFindingReturned
    /\ ((pc = "finish" \/ (pc = "raised" /\ error = "detector"))
           /\ ~BlockFindingReturned)
          => Len(detectors_run) = Len(Detectors)

\* C5: a detector that raises does not abort run_pipeline: no run ends with
\* the exception of a detector.
Cex_C5_DetectorRaiseDoesNotAbort ==
    pc = "raised" => error # "detector"

\* the policy cannot be loaded: the file is missing, or it is empty or
\* malformed and the cache has no entry of the file's mtime to answer from
PolicyCannotBeLoaded ==
    \/ ~policy_file.exists
    \/ /\ policy_file.content \in {"empty", "malformed"}
       /\ ~(policy_cache.cached /\ policy_cache.mtime = policy_file.mtime)

\* C6: if the policy cannot be loaded, run_pipeline ends with the exception,
\* without a response, and the policy cache is what it was before.
Inv_C6_LoadFailureServesNothing ==
    [][(pc = "load_policy" /\ PolicyCannotBeLoaded)
          => /\ pc' = "raised"
             /\ response' = NoText
             /\ policy_cache' = policy_cache]_vars

\* a load failed while the cache held the entry of an earlier, loadable file
Wit_C6_LoadFailedCacheKept ==
    /\ pc = "raised"
    /\ error = "load_policy"
    /\ policy_file.exists
    /\ policy_cache.cached
    /\ policy_cache.mtime # policy_file.mtime

\* C7: when the detectors produced no findings, the response run_pipeline
\* returns is the response text of the request.
Cex_C7_NoFindingsRequestTextReturned ==
    [][(pc = "finish" /\ findings = <<>> /\ pc' = "done")
          => response' = request.response]_vars

----------------------------------------------------------------------------
(* Direct calls of build_findings with an allowlist *)

AllowlistTexts == { <<"a", "b">>, <<"A", "c">> }

AllowlistTenants == {None, "t1", "t2"}

AllowlistRules ==
    {PolicyRule(id, type, "mask", kind, None, 10, None) :
        id \in {"R1", "R2"}, type \in {"pii", "url"}, kind \in {"email", None}}

\* entries as _parse_allowlist (policy.py 140-176) builds them: a value, a
\* regex or both; no constraint, one constraint, or all four
AllowlistEntries ==
    LET matchers    == {<<(<<"a">>), NoText>>, <<NoText, (<<"b">>)>>,
                        <<(<<"a", "b">>), (<<"c">>)>>}
        constraints == {<<{}, {}, {}, {}>>, <<{"pii"}, {}, {}, {}>>,
                        <<{}, {"email"}, {}, {}>>, <<{}, {}, {"R1"}, {}>>,
                        <<{}, {}, {}, {"t1"}>>,
                        <<{"pii"}, {"email"}, {"R1"}, {"t1"}>>}
    IN  {AllowlistEntry(m[1], m[2], c[1], c[2], c[3], c[4]) :
            m \in matchers, c \in constraints}

\* every span of the text with a character in it, in the order of finditer
RECURSIVE SpansFrom(_, _, _)
SpansFrom(text, s, e) ==
    IF s >= Len(text) THEN <<>>
    ELSE IF e > Len(text) THEN SpansFrom(text, s + 1, s + 2)
    ELSE <<(<<s, e>>)>> \o SpansFrom(text, s, e + 1)

AllSpans(text) == SpansFrom(text, 0, 1)

InitAllowlist ==
    /\ pc = "idle"
    /\ policy_view \in {[rules |-> <<r>>, context_settings |-> DefaultContextSettings,
                         allowlist |-> <<>>] : r \in AllowlistRules}
    /\ settings = NoSettings
    /\ findings = <<>>
    /\ decision = NoDecision
    /\ parsed_text \in AllowlistTexts
    /\ response = <<>>
    /\ safe_messages = [k \in {} |-> NoEntry]
    /\ request \in {[response |-> NoText, policy_id |-> "default", tenant |-> t] :
                       t \in AllowlistTenants}
    /\ segments = <<>>
    /\ policy_file = NoFile
    /\ policy_cache = NoCacheEntry
    /\ detectors_run = <<>>
    /\ error = None
    /\ NoService

\* the policy has one more allowlist entry
AllowlistAddEntry ==
    \E entry \in AllowlistEntries :
        /\ pc = "idle"
        /\ Len(policy_view.allowlist) < MaxAllowlist
        /\ policy_view' = [policy_view EXCEPT !.allowlist = Append(@, entry)]
        /\ UNCHANGED <<pc, settings, findings, decision, parsed_text, response,
                       safe_messages>>
        /\ UNCHANGED <<pipeline_vars, service_vars>>

\* build_findings for the rule of the policy, the scanner having matched
\* every span of the text
BuildFindingsCall ==
    /\ pc = "idle"
    /\ findings' = build_findings(policy_view, policy_view.rules[1], parsed_text,
                                  AllSpans(parsed_text), request.tenant)
    /\ pc' = "built"
    /\ UNCHANGED <<policy_view, settings, decision, parsed_text, response,
                   safe_messages>>
    /\ UNCHANGED <<pipeline_vars, service_vars>>

NextAllowlist == AllowlistAddEntry \/ BuildFindingsCall

SpecAllowlist == InitAllowlist /\ [][NextAllowlist]_vars

----------------------------------------------------------------------------
(* Claims about the allowlist *)

\* the entry allowlists the candidate for the rule and the tenant: each of its
\* non-empty constraint sets contains the rule's property or the tenant, and
\* its value is the candidate or its regex finds a hit in it
EntryAllowlists(entry, candidate, rule, tenant) ==
    /\ entry.rule_types = {} \/ rule.type \in entry.rule_types
    /\ entry.rule_kinds = {} \/ rule.kind \in entry.rule_kinds
    /\ entry.rule_ids = {} \/ rule.id \in entry.rule_ids
    /\ entry.tenants = {} \/ tenant \in entry.tenants
    /\ \/ entry.value = candidate
       \/ entry.regex # NoText /\ regex_search(entry.regex, candidate)

\* the matched string of the span is allowlisted in the observed call
SpanAllowlisted(sp) ==
    \E i \in 1..Len(policy_view.allowlist) :
        EntryAllowlists(policy_view.allowlist[i],
                        PySlice(parsed_text, sp[1], sp[2]),
                        policy_view.rules[1], request.tenant)

\* C11: a match whose matched string is allowlisted produces no Finding, and
\* every other match produces one.
Inv_C11_AllowlistedNeverFound ==
    pc = "built" =>
        \A k \in 1..Len(AllSpans(parsed_text)) :
            LET sp == AllSpans(parsed_text)[k]
            IN  SpanAllowlisted(sp)
                    <=> ~\E i \in 1..Len(findings) : findings[i].detail.span = sp

\* a call in which a tenant-bound entry suppressed one match and let
\* another through
Wit_C11_TenantEntrySuppresses ==
    /\ pc = "built"
    /\ request.tenant = "t1"
    /\ \E i \in 1..Len(policy_view.allowlist) :
          policy_view.allowlist[i].tenants = {"t1"}
    /\ findings # <<>>
    /\ Len(findings) < Len(AllSpans(parsed_text))

----------------------------------------------------------------------------
(* Direct calls of load_policy and invalidate_policy_cache *)

\* what a direct load_policy call leaves behind for the next one: whether it
\* returned, which store object, whether it parsed the file; calls tells one
\* call from the next, disturbed whether the file's mtime changed or the
\* cache was invalidated since
LoadRecord(loaded, calls) ==
    [returned |-> ~loaded.raised, instance |-> loaded.instance,
     parsed |-> loaded.parsed, calls |-> calls, disturbed |-> FALSE]

InitCache ==
    /\ pc = "idle"
    /\ policy_view = EmptyPolicy
    /\ settings = NoSettings
    /\ findings = <<>>
    /\ decision = NoDecision
    /\ parsed_text = <<>>
    /\ response = NoText
    /\ safe_messages = [k \in {} |-> NoEntry]
    /\ request = NoRequest
    /\ segments = <<>>
    /\ policy_file \in PolicyFiles
    /\ policy_cache = NoCacheEntry
    /\ detectors_run = <<>>
    /\ error = None
    /\ NoService

\* the policy file is written, replaced or deleted between two calls
CacheFileChange ==
    /\ \E f \in PolicyFiles :
        /\ policy_file' = f
        /\ last_load' = [last_load EXCEPT
                            !.disturbed = @ \/ f.mtime # policy_file.mtime]
    /\ UNCHANGED <<pc, policy_view, settings, findings, decision, parsed_text,
                   response, safe_messages, request, segments, policy_cache,
                   detectors_run, error, loaders>>
    /\ UNCHANGED <<normalize_vars, guard_vars, ml_vars, siem_vars>>

\* load_policy(path)
LoadPolicyCall ==
    /\ LET loaded == load_policy(policy_cache, policy_file,
                                 FreshInstance(policy_cache, last_load))
       IN  /\ policy_cache' = loaded.cache
           /\ last_load' = LoadRecord(loaded, 1 - last_load.calls)
    /\ UNCHANGED <<pc, policy_view, settings, findings, decision, parsed_text,
                   response, safe_messages, request, segments, policy_file,
                   detectors_run, error, loaders>>
    /\ UNCHANGED <<normalize_vars, guard_vars, ml_vars, siem_vars>>

\* invalidate_policy_cache(path) or invalidate_policy_cache()
InvalidatePolicyCacheCall ==
    /\ policy_cache' = invalidate_policy_cache(policy_cache)
    /\ last_load' = [last_load EXCEPT !.disturbed = TRUE]
    /\ UNCHANGED <<pc, policy_view, settings, findings, decision, parsed_text,
                   response, safe_messages, request, segments, policy_file,
                   detectors_run, error, loaders>>
    /\ UNCHANGED <<normalize_vars, guard_vars, ml_vars, siem_vars>>

NextCache == CacheFileChange \/ LoadPolicyCall \/ InvalidatePolicyCacheCall

SpecCache == InitCache /\ [][NextCache]_vars

----------------------------------------------------------------------------
(* Claims about the policy cache *)

\* C12: a load_policy call that follows one which returned a store, with no
\* change of the file's mtime and no invalidate in between, returns the same
\* PolicyStore object and does not parse the file.
Inv_C12_CachedStoreIdentical ==
    [][(/\ last_load'.calls # last_load.calls
        /\ last_load.returned
        /\ ~last_load.disturbed)
            => /\ last_load'.returned
               /\ last_load'.instance = last_load.instance
               /\ ~last_load'.parsed]_vars

\* the second of two calls was served from the cache although the content of
\* the file had changed under the same mtime
Wit_C12_SecondCallServedFromCache ==
    /\ last_load.returned
    /\ ~last_load.parsed
    /\ ~last_load.disturbed
    /\ policy_cache.content # policy_file.content

----------------------------------------------------------------------------
(* Direct calls of normalize_text *)

\* the characters of the texts handed to normalize_text: percent escapes and
\* character references of a control character, the full-width percent sign,
\* a zero-width and a control character, the allowed control characters
NormalizeChars ==
    {"%", "0", "7", "6", "1", "&", "#", "U+FF05", "U+200B", "U+0007", "\r", "\n"}

RECURSIVE TextsOver(_, _)
TextsOver(chars, n) ==
    IF n = 0 THEN {<<>>}
    ELSE LET shorter == TextsOver(chars, n - 1)
         IN  shorter \cup {Append(t, c) : t \in {u \in shorter : Len(u) = n - 1},
                                          c \in chars}

NormalizeInputs == TextsOver(NormalizeChars, MaxNormalizeLen)

InitNormalize ==
    /\ pc = "idle"
    /\ policy_view = EmptyPolicy
    /\ settings = NoSettings
    /\ findings = <<>>
    /\ decision = NoDecision
    /\ parsed_text \in NormalizeInputs
    /\ response = NoText
    /\ safe_messages = [k \in {} |-> NoEntry]
    /\ NoPipeline
    /\ NoService

\* normalize_text(value), first on the input and then on the text of its own
\* result; the time budget may run out before the HTML step of either call
NormalizeCall ==
    /\ Len(normalized) < 2
    /\ \E over_budget \in BOOLEAN :
        LET value == IF normalized = <<>> THEN parsed_text
                     ELSE normalized[Len(normalized)].text
        IN  normalized' = Append(normalized,
                [text |-> normalize_text(value, DEFAULT_MAX_UNESCAPE, over_budget),
                 over_budget |-> over_budget])
    /\ UNCHANGED <<pc, policy_view, settings, findings, decision, parsed_text,
                   response, safe_messages>>
    /\ UNCHANGED <<pipeline_vars, cache_vars, guard_vars, ml_vars, siem_vars>>

NextNormalize == NormalizeCall

SpecNormalize == InitNormalize /\ [][NextNormalize]_vars

----------------------------------------------------------------------------
(* Claims about normalize_text *)

\* C13: normalizing the text of a result again gives the same text (both
\* calls within the time budget).
Cex_C13_NormalizeIdempotent ==
    (/\ Len(normalized) = 2
     /\ ~normalized[1].over_budget
     /\ ~normalized[2].over_budget)
        => normalized[2].text = normalized[1].text

\* C14: the text normalize_text returns has no zero-width character and no
\* character of general category C other than newline, carriage return and
\* tab, whether or not the HTML step was skipped.
Inv_C14_NoZeroWidthNoControl ==
    \A k \in 1..Len(normalized) :
        \A i \in 1..Len(normalized[k].text) :
            LET c == normalized[k].text[i]
            IN  /\ c \notin ZERO_WIDTH_CHARS
                /\ c \in CategoryC => c \in {"\n", "\r", "\t"}

\* a call that decoded a percent escape into a control character returned a
\* text without it, with the HTML step skipped
Wit_C14_DecodedControlStripped ==
    /\ Len(normalized) = 1
    /\ normalized[1].over_budget
    /\ unquote(parsed_text) # parsed_text
    /\ "U+0007" \in {unquote(parsed_text)[i] : i \in 1..Len(unquote(parsed_text))}
    /\ normalized[1].text = <<>>

----------------------------------------------------------------------------
(* Direct calls of parse_content *)

\* the pieces the parsed texts are made of: the delimiters of code spans,
\* fenced blocks and links, a raw URL, an educational keyword, filling
ParsePieces ==
    { <<BACKTICK>>, <<BACKTICK, BACKTICK, BACKTICK>>, <<"\n">>, <<" ">>, <<"a">>,
      <<"[">>, <<"]", "(", "a", ")">>,
      <<"h", "t", "t", "p", ":", "/", "/", "a">>,
      <<"n", "e", "v", "e", "r">> }

RECURSIVE TextsOfPieces(_)
TextsOfPieces(n) ==
    IF n = 0 THEN {<<>>}
    ELSE LET shorter == TextsOfPieces(n - 1)
         IN  shorter \cup {t \o p : t \in shorter, p \in ParsePieces}

\* the pre-classifiers handed to parse_content
ParsePredictions ==
    {NoClassifier, HeuristicPreClassifier, ModelPreClassifier("command"),
     ModelPreClassifier("raise")}

InitParse ==
    /\ pc = "idle"
    /\ policy_view = EmptyPolicy
    /\ settings = NoSettings
    /\ findings = <<>>
    /\ decision = NoDecision
    /\ parsed_text \in TextsOfPieces(MaxPieces)
    /\ response = NoText
    /\ safe_messages = [k \in {} |-> NoEntry]
    /\ NoPipeline
    /\ NoService

\* parse_content(text, ml_preclassifier=...), shadow_mode left at its default
ParseContentCall ==
    /\ pc = "idle"
    /\ \E classifier \in ParsePredictions :
          segments' = parse_content(parsed_text, classifier, FALSE)
    /\ pc' = "parsed"
    /\ UNCHANGED <<policy_view, settings, findings, decision, parsed_text,
                   response, safe_messages, request, policy_file, policy_cache,
                   detectors_run, error>>
    /\ UNCHANGED service_vars

NextParse == ParseContentCall

SpecParse == InitParse /\ [][NextParse]_vars

----------------------------------------------------------------------------
(* Claims about parse_content *)

\* text[a:b] has only whitespace in it
OnlyWhitespace(text, a, b) == ~HasNonSpace(PySlice(text, a, b))

----------------------------------------------------------------------------
(* app/main.py : the /guard endpoint *)

\* the variables of evaluate, apply_actions and run_pipeline's result
core_vars == <<pc, policy_view, settings, findings, decision, parsed_text,
               response, safe_messages>>

\* no call of the core is in progress
IdleCore ==
    /\ pc = "idle"
    /\ policy_view = EmptyPolicy
    /\ settings = NoSettings
    /\ findings = <<>>
    /\ decision = NoDecision
    /\ parsed_text = <<>>
    /\ response = NoText
    /\ safe_messages = [k \in {} |-> NoEntry]

\* Settings.max_request_size_bytes (settings.py 33)
max_request_size_bytes == 524288

\* the workers of the loop's default executor, which asyncio.to_thread
\* submits to: min(32, os.cpu_count() + 4), on one CPU
ExecutorMaxWorkers == 5

\* request.headers.get("content-length") is None
NoContentLength == [present |-> FALSE, is_int |-> FALSE, value |-> 0]

\* a request the server has not received yet
NoGuardRequest ==
    [phase |-> "none", body_size |-> 0, content_length |-> NoContentLength,
     thread |-> "none", status |-> 0]

\* the Content-Length headers a request of this body size may carry: none
\* (chunked transfer), the size, or a value int() rejects
ContentLengths(body_size) ==
    {NoContentLength,
     [present |-> TRUE, is_int |-> FALSE, value |-> 0],
     [present |-> TRUE, is_int |-> TRUE, value |-> body_size]}

BodySizes == {max_request_size_bytes, max_request_size_bytes + 1}

\* the number of run_pipeline executions in progress
ExecutingThreads ==
    Cardinality({r \in 1..Len(guard_requests) :
                    guard_requests[r].thread = "executing"})

InitGuard ==
    /\ IdleCore
    /\ NoPipeline
    /\ NoCache
    /\ NoNormalize
    /\ NoMl
    /\ NoSiem
    /\ guard_semaphore = MaxConcurrentGuardRequests
    /\ guard_requests = [r \in 1..MaxGuardRequests |-> NoGuardRequest]

\* a POST /guard arrives
GuardArrive(r) ==
    /\ guard_requests[r].phase = "none"
    /\ \E size \in BodySizes : \E header \in ContentLengths(size) :
          guard_requests' = [guard_requests EXCEPT ![r] =
              [@ EXCEPT !.phase = "middleware", !.body_size = size,
                        !.content_length = header]]
    /\ UNCHANGED guard_semaphore
    /\ UNCHANGED <<core_vars, pipeline_vars, cache_vars, normalize_vars,
                   ml_vars, siem_vars>>

\* the enforce_limits middleware (main.py 94-117): the response 413 or
\* call_next
enforce_limits(req) ==
    IF /\ req.content_length.present
       /\ req.content_length.is_int
       /\ req.content_length.value > max_request_size_bytes
    THEN [req EXCEPT !.phase = "done", !.status = 413]
    ELSE [req EXCEPT !.phase = "endpoint"]

EnforceLimits(r) ==
    /\ guard_requests[r].phase = "middleware"
    /\ guard_requests' = [guard_requests EXCEPT ![r] = enforce_limits(@)]
    /\ UNCHANGED guard_semaphore
    /\ UNCHANGED <<core_vars, pipeline_vars, cache_vars, normalize_vars,
                   ml_vars, siem_vars>>

\* guard_endpoint enters "async with guard_semaphore" and awaits
\* wait_for(to_thread(run_pipeline, ...)) (main.py 129-142): the call is
\* submitted to the executor
AcquireSemaphore(r) ==
    /\ guard_requests[r].phase = "endpoint"
    /\ guard_semaphore > 0
    /\ guard_semaphore' = guard_semaphore - 1
    /\ guard_requests' = [guard_requests EXCEPT ![r] =
          [@ EXCEPT !.phase = "awaiting", !.thread = "queued"]]
    /\ UNCHANGED <<core_vars, pipeline_vars, cache_vars, normalize_vars,
                   ml_vars, siem_vars>>

\* a worker of the executor starts run_pipeline
StartThread(r) ==
    /\ guard_requests[r].thread = "queued"
    /\ ExecutingThreads < ExecutorMaxWorkers
    /\ guard_requests' = [guard_requests EXCEPT ![r].thread = "executing"]
    /\ UNCHANGED guard_semaphore
    /\ UNCHANGED <<core_vars, pipeline_vars, cache_vars, normalize_vars,
                   ml_vars, siem_vars>>

\* run_pipeline returns; a request still awaiting it gets the response and
\* leaves the semaphore (main.py 143)
FinishThread(r) ==
    /\ guard_requests[r].thread = "executing"
    /\ IF guard_requests[r].phase = "awaiting"
       THEN /\ guard_requests' = [guard_requests EXCEPT ![r] =
                  [@ EXCEPT !.thread = "finished", !.phase = "done",
                            !.status = 200]]
            /\ guard_semaphore' = guard_semaphore + 1
       ELSE /\ guard_requests' = [guard_requests EXCEPT ![r].thread = "finished"]
            /\ UNCHANGED guard_semaphore
    /\ UNCHANGED <<core_vars, pipeline_vars, cache_vars, normalize_vars,
                   ml_vars, siem_vars>>

\* request_timeout_seconds pass: wait_for cancels the awaited future and
\* raises TimeoutError, the request answers 408 and leaves the semaphore
\* (main.py 144-153); a call the executor has not started is cancelled, a
\* running thread cannot be
RequestTimeout(r) ==
    /\ guard_requests[r].phase = "awaiting"
    /\ guard_requests' = [guard_requests EXCEPT ![r] =
          [@ EXCEPT !.phase = "done", !.status = 408,
                    !.thread = IF @ = "queued" THEN "cancelled" ELSE @]]
    /\ guard_semaphore' = guard_semaphore + 1
    /\ UNCHANGED <<core_vars, pipeline_vars, cache_vars, normalize_vars,
                   ml_vars, siem_vars>>

NextGuard ==
    \/ \E r \in 1..MaxGuardRequests : GuardArrive(r)
    \/ \E r \in 1..MaxGuardRequests : EnforceLimits(r)
    \/ \E r \in 1..MaxGuardRequests : AcquireSemaphore(r)
    \/ \E r \in 1..MaxGuardRequests : StartThread(r)
    \/ \E r \in 1..MaxGuardRequests : FinishThread(r)
    \/ \E r \in 1..MaxGuardRequests : RequestTimeout(r)

SpecGuard == InitGuard /\ [][NextGuard]_vars

----------------------------------------------------------------------------
(* Claims about the /guard endpoint *)

\* C16: the number of run_pipeline executions in progress, those of timed-out
\* requests included, is at most max_concurrent_guard_requests.
Cex_C16_ExecutionsBounded ==
    ExecutingThreads <= MaxConcurrentGuardRequests

\* C17: a request whose body is larger than max_request_size_bytes never has
\* run_pipeline invoked for it and is answered with 413.
Cex_C17_OversizeRejected ==
    \A r \in 1..Len(guard_requests) :
        guard_requests[r].body_size > max_request_size_bytes
            => /\ guard_requests[r].thread = "none"
               /\ guard_requests[r].phase = "done" => guard_requests[r].status = 413

----------------------------------------------------------------------------
(* Calls of load_preclassifier, directly and from run_pipeline *)

ModelArtifacts ==
    {ModelArtifact(exists, location, manifest, loadable, label) :
        exists \in BOOLEAN, location \in {"beneath", "outside"},
        manifest \in Manifests, loadable \in BOOLEAN,
        label \in {"command", "unknown"}}

MlSettings ==
    {[feature_ml_preclf |-> f, enforce_model_integrity |-> e,
      feature_context_parsing |-> c, shadow_mode |-> FALSE] :
        f \in BOOLEAN, e \in BOOLEAN, c \in BOOLEAN}

\* responses with a code segment: with and without an educational keyword
\* around it, with a command keyword in it
MlRequestTexts ==
    { <<BACKTICK, "a", BACKTICK>>,
      <<"n", "e", "v", "e", "r", "\n", BACKTICK, "a", BACKTICK>>,
      <<BACKTICK, "c", "u", "r", "l", BACKTICK>> }

InitPreclassifier ==
    /\ pc = "idle"
    /\ policy_view = EmptyPolicy
    /\ settings \in MlSettings
    /\ findings = <<>>
    /\ decision = NoDecision
    /\ parsed_text = <<>>
    /\ response = NoText
    /\ safe_messages = [k \in {} |-> NoEntry]
    /\ request \in {[response |-> t, policy_id |-> "default", tenant |-> None] :
                       t \in MlRequestTexts}
    /\ segments = <<>>
    /\ policy_file = NoFile
    /\ policy_cache = NoCacheEntry
    /\ detectors_run = <<>>
    /\ error = None
    /\ NoCache
    /\ NoNormalize
    /\ NoGuard
    /\ NoSiem
    /\ model_artifact \in ModelArtifacts
    /\ ml_preclassifier = None
    /\ ml_preclf_load_total = <<>>
    /\ ml_shadow_total = <<>>

\* load_preclassifier(model_path=..., manifest_path=..., enforce_integrity=...)
LoadPreclassifierCall ==
    /\ pc = "idle"
    /\ ml_preclassifier' = load_preclassifier(model_artifact,
                                              settings.enforce_model_integrity)
    /\ pc' = "loaded"
    /\ UNCHANGED <<policy_view, settings, findings, decision, parsed_text,
                   response, safe_messages, model_artifact,
                   ml_preclf_load_total, ml_shadow_total>>
    /\ UNCHANGED <<pipeline_vars, cache_vars, normalize_vars, guard_vars,
                   siem_vars>>

\* run_pipeline up to the parsed content (pipeline.py 141-185)
ParseStage ==
    /\ pc = "idle"
    /\ \E over_budget \in BOOLEAN :
        \E text \in {normalize_text(request.response, DEFAULT_MAX_UNESCAPE,
                                    over_budget)} :
        LET stage == parse_stage(text, settings, model_artifact)
        IN  /\ parsed_text' = stage.text
            /\ segments' = stage.segments
            /\ ml_preclf_load_total' =
                   IF stage.load_status = None THEN ml_preclf_load_total
                   ELSE Append(ml_preclf_load_total, stage.load_status)
    /\ pc' = "parsed"
    /\ UNCHANGED <<policy_view, settings, findings, decision, response,
                   safe_messages, request, policy_file, policy_cache,
                   detectors_run, error, model_artifact, ml_preclassifier,
                   ml_shadow_total>>
    /\ UNCHANGED <<cache_vars, normalize_vars, guard_vars, siem_vars>>

NextPreclassifier == LoadPreclassifierCall \/ ParseStage

SpecPreclassifier == InitPreclassifier /\ [][NextPreclassifier]_vars

----------------------------------------------------------------------------
(* Claims about the pre-classifier *)

\* C18: joblib.load is called only for a file beneath the trusted directory
\* whose SHA-256 and size both equal the values the manifest records.
Cex_C18_LoadOnlyVerifiedArtifact ==
    (pc = "loaded" /\ ml_preclassifier.joblib_load)
        => /\ model_artifact.location = "beneath"
           /\ model_artifact.manifest.exists
           /\ model_artifact.manifest.sha256 = "match"
           /\ model_artifact.manifest.size_bytes = "match"

\* the failures of the model artifact: its path is outside the trusted
\* directory, its hash or its size differs from the manifest, or loading it
\* raises
ArtifactFailure ==
    /\ model_artifact.exists
    /\ \/ model_artifact.location # "beneath"
       \/ model_artifact.manifest.sha256 = "mismatch"
       \/ model_artifact.manifest.size_bytes = "mismatch"
       \/ ~model_artifact.loadable

\* C19: after a failure of the model artifact the load metric is observed with
\* status fail and every code segment has the explain-only value of the
\* keyword heuristic.
Cex_C19_FailureFallsBackToHeuristic ==
    (/\ pc = "parsed"
     /\ settings.feature_ml_preclf
     /\ settings.feature_context_parsing
     /\ ArtifactFailure)
        => /\ ml_preclf_load_total = <<"fail">>
           /\ \A k \in 1..Len(segments) :
                 segments[k].type = "code" =>
                     segments[k].explain_only =
                         has_educational_keywords(
                             get_surrounding_text(parsed_text, segments[k].start,
                                                  segments[k].end))

----------------------------------------------------------------------------
(* app/siem/manager.py : SIEMManager *)

\* SIEMManager.MAX_QUEUE_SIZE (manager.py 76), at the modelled scale
MAX_QUEUE_SIZE == MaxQueueSize

\* SIEMMetrics() (manager.py 32-39): the counters
NoSiemMetrics ==
    [events_queued |-> 0, events_sent |-> 0, events_failed |-> 0,
     batches_sent |-> 0, batches_failed |-> 0]

\* the configurations: SIEM_ENABLED, SIEM_BATCH_SIZE, whether connector_type
\* names a connector (ConnectorType.NONE does not), whether validate_config
\* finds the connector's settings; with the manager's _connector and _running,
\* which start() sets, and how far stop() has come, with the batch its _flush
\* holds
SiemConfigs ==
    {[enabled |-> e, batch_size |-> b, connector_type |-> t, valid |-> v,
      started |-> FALSE, connector |-> FALSE, running |-> FALSE,
      stop |-> "no", stop_batch |-> <<>>] :
        e \in BOOLEAN, b \in 1..MaxBatchSize, t \in {"webhook", "none"},
        v \in BOOLEAN}

\* deque(maxlen=MAX_QUEUE_SIZE).append (manager.py 80): a full deque discards
\* its leftmost item
deque_append(queue, event) ==
    IF Len(queue) >= MAX_QUEUE_SIZE
    THEN [queue |-> Append(Tail(queue), event), evicted |-> <<Head(queue)>>]
    ELSE [queue |-> Append(queue, event), evicted |-> <<>>]

\* start (manager.py 103-130)
start(config) ==
    IF ~config.enabled \/ ~config.valid
    THEN [config EXCEPT !.started = TRUE]
    ELSE [config EXCEPT !.started = TRUE,
                        !.connector = (config.connector_type # "none"),
                        !.running = TRUE]

\* queue_event (manager.py 152-172): the return value, the queue, whether the
\* event was appended, whether a _flush task was created
queue_event(config, queue, event) ==
    IF ~config.enabled \/ ~config.connector
    THEN [returned |-> TRUE, queue |-> queue, appended |-> FALSE,
          flush |-> FALSE]
    ELSE IF Len(queue) >= MAX_QUEUE_SIZE
    THEN [returned |-> FALSE, queue |-> queue, appended |-> FALSE,
          flush |-> FALSE]
    ELSE [returned |-> TRUE, queue |-> Append(queue, event),
          appended |-> TRUE,
          flush |-> (Len(queue) + 1 >= config.batch_size)]

\* _flush (manager.py 211-226) up to the await of send_events: the batch taken
\* from the left of the queue, and the queue that remains
flush(config, queue) ==
    IF ~config.connector \/ queue = <<>>
    THEN [batch |-> <<>>, queue |-> queue]
    ELSE LET n == Min(Len(queue), config.batch_size)
         IN  [batch |-> SubSeq(queue, 1, n),
              queue |-> SubSeq(queue, n + 1, Len(queue))]

\* a sequence without its i-th item
RemoveAt(seq, i) == SubSeq(seq, 1, i - 1) \o SubSeq(seq, i + 1, Len(seq))

\* an enqueue call that returned: the method, the event it carried, the queue
\* length it read, its return value, the events its append discarded
SiemCall(op, event, held, returned, evicted) ==
    [op |-> op, event |-> event, held |-> held, returned |-> returned,
     evicted |-> evicted]

\* no enqueue call has returned
NoSiemCall == SiemCall(None, 0, 0, TRUE, <<>>)

\* the enqueue calls: how many were made, the queue_finding calls that have
\* read the queue length and not yet appended, the call that returned last
NoSiemCalls == [made |-> 0, checked |-> <<>>, last |-> NoSiemCall]

InitSiem ==
    /\ IdleCore
    /\ NoPipeline
    /\ NoCache
    /\ NoNormalize
    /\ NoGuard
    /\ NoMl
    /\ siem_config \in SiemConfigs
    /\ siem_queue = <<>>
    /\ siem_calls = NoSiemCalls
    /\ siem_flushes = <<>>
    /\ siem_metrics = NoSiemMetrics

\* await manager.start()
SiemStart ==
    /\ ~siem_config.started
    /\ siem_config' = start(siem_config)
    /\ UNCHANGED <<siem_queue, siem_calls, siem_flushes, siem_metrics>>
    /\ UNCHANGED <<core_vars, pipeline_vars, cache_vars, normalize_vars,
                   guard_vars, ml_vars>>

\* await manager.queue_event(event): the coroutine has no await, so it runs in
\* one step of the event loop
QueueEvent ==
    /\ siem_calls.made < MaxSiemCalls
    /\ LET event == siem_calls.made + 1
           call  == queue_event(siem_config, siem_queue, event)
       IN  /\ siem_queue' = call.queue
           /\ siem_calls' =
                  [siem_calls EXCEPT
                      !.made = event,
                      !.last = SiemCall("queue_event", event, Len(siem_queue),
                                        call.returned, <<>>)]
           /\ siem_metrics' =
                  IF call.appended
                  THEN [siem_metrics EXCEPT !.events_queued = @ + 1]
                  ELSE siem_metrics
           /\ siem_flushes' =
                  IF call.flush
                  THEN Append(siem_flushes,
                              [phase |-> "scheduled", batch |-> <<>>,
                               loop |-> FALSE])
                  ELSE siem_flushes
    /\ UNCHANGED siem_config
    /\ UNCHANGED <<core_vars, pipeline_vars, cache_vars, normalize_vars,
                   guard_vars, ml_vars>>

\* manager.queue_finding(...) reads len(self._queue) and returns False at a
\* full queue (manager.py 203-204); the method is synchronous and is called
\* from a thread of its own
QueueFindingCheck ==
    /\ siem_calls.made < MaxSiemCalls
    /\ LET event == siem_calls.made + 1
       IN  siem_calls' =
               IF Len(siem_queue) >= MAX_QUEUE_SIZE
               THEN [siem_calls EXCEPT
                        !.made = event,
                        !.last = SiemCall("queue_finding", event,
                                          Len(siem_queue), FALSE, <<>>)]
               ELSE [siem_calls EXCEPT
                        !.made = event,
                        !.checked = Append(@, [event |-> event,
                                               held |-> Len(siem_queue)])]
    /\ UNCHANGED <<siem_config, siem_queue, siem_flushes, siem_metrics>>
    /\ UNCHANGED <<core_vars, pipeline_vars, cache_vars, normalize_vars,
                   guard_vars, ml_vars>>

\* manager.queue_finding(...) appends and returns True (manager.py 206-208)
QueueFindingAppend(c) ==
    /\ LET call     == siem_calls.checked[c]
           appended == deque_append(siem_queue, call.event)
       IN  /\ siem_queue' = appended.queue
           /\ siem_calls' =
                  [siem_calls EXCEPT
                      !.checked = RemoveAt(@, c),
                      !.last = SiemCall("queue_finding", call.event,
                                        call.held, TRUE, appended.evicted)]
    /\ siem_metrics' = [siem_metrics EXCEPT !.events_queued = @ + 1]
    /\ UNCHANGED <<siem_config, siem_flushes>>
    /\ UNCHANGED <<core_vars, pipeline_vars, cache_vars, normalize_vars,
                   guard_vars, ml_vars>>

\* a _flush task created by queue_event runs up to its await
FlushTask(f) ==
    /\ siem_flushes[f].phase = "scheduled"
    /\ LET taken == flush(siem_config, siem_queue)
       IN  /\ siem_queue' = taken.queue
           /\ siem_flushes' =
                  IF taken.batch = <<>> THEN RemoveAt(siem_flushes, f)
                  ELSE [siem_flushes EXCEPT ![f] =
                           [@ EXCEPT !.phase = "sending",
                                     !.batch = taken.batch]]
    /\ UNCHANGED <<siem_config, siem_calls, siem_metrics>>
    /\ UNCHANGED <<core_vars, pipeline_vars, cache_vars, normalize_vars,
                   guard_vars, ml_vars>>

\* _flush_loop (manager.py 243-251) wakes after flush_interval and runs _flush
\* up to its await; the loop awaits one _flush at a time
FlushLoop ==
    /\ siem_config.running
    /\ \A f \in 1..Len(siem_flushes) : ~siem_flushes[f].loop
    /\ LET taken == flush(siem_config, siem_queue)
       IN  /\ taken.batch # <<>>
           /\ siem_queue' = taken.queue
           /\ siem_flushes' =
                  Append(siem_flushes,
                         [phase |-> "sending", batch |-> taken.batch,
                          loop |-> TRUE])
    /\ UNCHANGED <<siem_config, siem_calls, siem_metrics>>
    /\ UNCHANGED <<core_vars, pipeline_vars, cache_vars, normalize_vars,
                   guard_vars, ml_vars>>

\* send_events returns, or raises (manager.py 228-241)
SendEvents(f) ==
    /\ siem_flushes[f].phase = "sending"
    /\ \E success \in BOOLEAN :
          siem_metrics' =
              IF success
              THEN [siem_metrics EXCEPT
                       !.events_sent = @ + Len(siem_flushes[f].batch),
                       !.batches_sent = @ + 1]
              ELSE [siem_metrics EXCEPT
                       !.events_failed = @ + Len(siem_flushes[f].batch),
                       !.batches_failed = @ + 1]
    /\ siem_flushes' = RemoveAt(siem_flushes, f)
    /\ UNCHANGED <<siem_config, siem_queue, siem_calls>>
    /\ UNCHANGED <<core_vars, pipeline_vars, cache_vars, normalize_vars,
                   guard_vars, ml_vars>>

\* the _flush of stop() up to its await (manager.py 143-144, 211-226): with
\* no batch taken it returns and stop() completes
stop_flush(config, queue) ==
    LET taken == flush(config, queue)
    IN  [config |-> IF taken.batch = <<>>
                    THEN [config EXCEPT !.stop = "done"]
                    ELSE [config EXCEPT !.stop = "sending",
                                        !.stop_batch = taken.batch],
         queue |-> taken.queue]

\* await manager.stop() up to its first await (manager.py 131-144): _running
\* is cleared; a _flush_task is cancelled and awaited, the CancelledError
\* leaves a _flush of the loop that awaits send_events through
\* "except Exception" (manager.py 237) with its batch uncounted; without a
\* _flush_task stop() goes on to its _flush at once
SiemStop ==
    /\ siem_config.started
    /\ siem_config.stop = "no"
    /\ IF siem_config.running
       THEN /\ siem_config' = [siem_config EXCEPT !.running = FALSE,
                                                  !.stop = "cancelled"]
            /\ siem_flushes' = SelectSeq(siem_flushes, LAMBDA f : ~f.loop)
            /\ UNCHANGED siem_queue
       ELSE LET stopped == stop_flush(siem_config, siem_queue)
            IN  /\ siem_config' = stopped.config
                /\ siem_queue' = stopped.queue
                /\ UNCHANGED siem_flushes
    /\ UNCHANGED <<siem_calls, siem_metrics>>
    /\ UNCHANGED <<core_vars, pipeline_vars, cache_vars, normalize_vars,
                   guard_vars, ml_vars>>

\* stop() resumes after the cancelled _flush_task and runs its one _flush up
\* to the await of send_events (manager.py 143-144)
SiemStopFlush ==
    /\ siem_config.stop = "cancelled"
    /\ LET stopped == stop_flush(siem_config, siem_queue)
       IN  /\ siem_config' = stopped.config
           /\ siem_queue' = stopped.queue
    /\ UNCHANGED <<siem_calls, siem_flushes, siem_metrics>>
    /\ UNCHANGED <<core_vars, pipeline_vars, cache_vars, normalize_vars,
                   guard_vars, ml_vars>>

\* send_events of stop()'s _flush returns, or raises; stop() disconnects and
\* completes (manager.py 228-241, 146-150)
SiemStopSent ==
    /\ siem_config.stop = "sending"
    /\ \E success \in BOOLEAN :
          siem_metrics' =
              IF success
              THEN [siem_metrics EXCEPT
                       !.events_sent = @ + Len(siem_config.stop_batch),
                       !.batches_sent = @ + 1]
              ELSE [siem_metrics EXCEPT
                       !.events_failed = @ + Len(siem_config.stop_batch),
                       !.batches_failed = @ + 1]
    /\ siem_config' = [siem_config EXCEPT !.stop = "done", !.stop_batch = <<>>]
    /\ UNCHANGED <<siem_queue, siem_calls, siem_flushes>>
    /\ UNCHANGED <<core_vars, pipeline_vars, cache_vars, normalize_vars,
                   guard_vars, ml_vars>>

NextSiem ==
    \/ SiemStart
    \/ SiemStop
    \/ SiemStopFlush
    \/ SiemStopSent
    \/ QueueEvent
    \/ QueueFindingCheck
    \/ \E c \in 1..Len(siem_calls.checked) : QueueFindingAppend(c)
    \/ \E f \in 1..Len(siem_flushes) : FlushTask(f)
    \/ FlushLoop
    \/ \E f \in 1..Len(siem_flushes) : SendEvents(f)

SpecSiem == InitSiem /\ [][NextSiem]_vars

----------------------------------------------------------------------------
(* Claims about the SIEM queue *)

\* C20: the SIEM queue never holds more than MAX_QUEUE_SIZE events; an enqueue
\* call that finds the queue at MAX_QUEUE_SIZE returns False, and no enqueue
\* call discards an event that was queued.
Cex_C20_QueueBoundedNoEventLost ==
    /\ Len(siem_queue) <= MAX_QUEUE_SIZE
    /\ siem_calls.last.evicted = <<>>
    /\ siem_calls.last.held = MAX_QUEUE_SIZE => ~siem_calls.last.returned

----------------------------------------------------------------------------
(* Claims about _apply_replacements *)

\* the replacements of the observed call, as collected and as ordered
CollectedReplacements == collect_replacements(findings)

OrderedReplacements == SortedByStart(CollectedReplacements)

\* the items of a list of replacements that start at s, in the list's order
StartingAt(replacements, s) ==
    SelectSeq(replacements, LAMBDA item : item.start = s)

\* the replacements applied when each one is compared with the end of the one
\* applied before it (the start of the text when none was)
RECURSIVE NotBeforeLastEnd(_, _)
NotBeforeLastEnd(ordered, last_end) ==
    IF ordered = <<>> THEN <<>>
    ELSE IF Head(ordered).start >= last_end
         THEN <<Head(ordered)>>
                  \o NotBeforeLastEnd(Tail(ordered), Head(ordered).end)
         ELSE NotBeforeLastEnd(Tail(ordered), last_end)

\* C21: replacements are processed by ascending start with ties in the order
\* of the findings; one is applied if and only if its start is not before the
\* end of the last applied one; applied replacements never overlap; a dropped
\* replacement leaves the output as if it had not been passed.
Inv_C21_ReplacementsOrderedNoOverlap ==
    (pc = "applied" /\ ~decision.blocked) =>
        /\ Len(OrderedReplacements) = Len(CollectedReplacements)
        /\ \A i, j \in 1..Len(OrderedReplacements) :
              i < j => OrderedReplacements[i].start <= OrderedReplacements[j].start
        /\ \A s \in -1..MaxTextLen + 1 :
              StartingAt(OrderedReplacements, s)
                  = StartingAt(CollectedReplacements, s)
        /\ AppliedReplacements = NotBeforeLastEnd(OrderedReplacements, 0)
        /\ \A i, j \in 1..Len(AppliedReplacements) :
              i < j => AppliedReplacements[i].end <= AppliedReplacements[j].start
        /\ response = apply_replacements(parsed_text, AppliedReplacements)

\* the later of two overlapping replacements, (0, 2) and one starting at 1,
\* was dropped
Wit_C21_OverlappingLaterDropped ==
    /\ pc = "applied"
    /\ ~decision.blocked
    /\ Len(CollectedReplacements) = 2
    /\ Len(AppliedReplacements) = 1
    /\ CollectedReplacements[1].start = 0
    /\ CollectedReplacements[1].end = 2
    /\ CollectedReplacements[2].start = 1
    /\ CollectedReplacements[2].repl # CollectedReplacements[1].repl
    /\ response # parsed_text

----------------------------------------------------------------------------
(* Claims about the context adjustment *)

\* the amount when the condition holds, 0 otherwise
Charge(condition, amount) == IF condition THEN amount ELSE 0

\* the contribution of a finding as a closed formula over the rule's weight
\* and the context settings
FormulaContribution(f) ==
    LET cs   == policy_view.context_settings
        base == Max(RuleOf(f).risk_weight, 0)
    IN  IF RuleOf(f) = NoRule THEN DEFAULT_RULE_WEIGHT
        ELSE IF ~cs.enabled THEN base
        ELSE Max(0, base
                    - Charge(f.explain_only /\ f.type = "cmd",
                             cs.explain_only_penalty)
                    - Charge(f.context = "code" /\ ~f.explain_only,
                             cs.code_block_penalty)
                    + Charge(f.context = "link" /\ f.type = "url",
                             cs.link_context_bonus))

----------------------------------------------------------------------------
(* Direct calls to _detect_explain_only *)

\* n spaces
Pad(n) == [k \in 1..n |-> " "]

InlineCodeA == <<BACKTICK, "a", BACKTICK>>

\* the word of EDUCATIONAL_KEYWORDS the texts use
NeverWord == <<"n", "e", "v", "e", "r">>

\* short texts: code with and without an educational keyword next to it, with
\* a command keyword in it, beside a link and a URL
ExplainTexts ==
    { InlineCodeA,
      NeverWord \o <<"\n">> \o InlineCodeA,
      InlineCodeA \o <<" ">> \o NeverWord,
      <<BACKTICK, "c", "u", "r", "l", BACKTICK>>,
      NeverWord \o <<" ", BACKTICK, "c", "u", "r", "l", BACKTICK>>,
      <<"[", "a", "]", "(", "a", ")", " ">> \o InlineCodeA,
      <<"N", "E", "V", "E", "R", " ">> \o InlineCodeA
          \o <<" ", "h", "t", "t", "p", ":", "/", "/", "a">> }

\* the calls parse_content makes for a text: the text and one of its segments
SegmentsOf(text) ==
    {[text |-> text, segment |-> built_segments(text)[k]] :
        k \in 1..Len(built_segments(text))}

\* long texts and their code segment: the code lies just within, or just
\* beyond, CONTEXT_WINDOW_SIZE characters of the keyword before or after it
WindowCalls ==
    LET near == CONTEXT_WINDOW_SIZE - Len(NeverWord)
    IN  {[text |-> NeverWord \o Pad(n) \o InlineCodeA,
          segment |-> Segment("code", Len(NeverWord) + n,
                              Len(NeverWord) + n + Len(InlineCodeA), FALSE)] :
            n \in {near, near + 1}}
        \cup {[text |-> InlineCodeA \o Pad(n) \o NeverWord,
               segment |-> Segment("code", 0, Len(InlineCodeA), FALSE)] :
                n \in {near, near + 1}}

ExplainCalls == UNION {SegmentsOf(text) : text \in ExplainTexts} \cup WindowCalls

\* the labels a model can answer, and "raise" for a predict that raises
ExplainLabels ==
    EducationalLabels \cup CommandLabels \cup {"unknown", "raise"}

ExplainClassifiers ==
    {NoClassifier, HeuristicPreClassifier}
        \cup {ModelPreClassifier(label) : label \in ExplainLabels}

InitExplainOnly ==
    /\ pc = "idle"
    /\ policy_view = EmptyPolicy
    /\ settings \in {[shadow_mode |-> b] : b \in BOOLEAN}
    /\ findings = <<>>
    /\ decision = NoDecision
    /\ \E call \in ExplainCalls :
          /\ parsed_text = call.text
          /\ segments = <<call.segment>>
    /\ response = NoText
    /\ safe_messages = [k \in {} |-> NoEntry]
    /\ request = NoRequest
    /\ policy_file = NoFile
    /\ policy_cache = NoCacheEntry
    /\ detectors_run = <<>>
    /\ error = None
    /\ NoCache
    /\ NoNormalize
    /\ NoGuard
    /\ NoSiem
    /\ model_artifact = None
    /\ ml_preclassifier \in ExplainClassifiers
    /\ ml_preclf_load_total = <<>>
    /\ ml_shadow_total = <<>>

\* segment.explain_only = _detect_explain_only(segment, text,
\* ml_preclassifier=..., shadow_mode=...)
DetectExplainOnlyCall ==
    /\ pc = "idle"
    /\ LET detected == detect_explain_only(segments[1], parsed_text,
                                           ml_preclassifier,
                                           settings.shadow_mode)
       IN  /\ segments' = <<[segments[1] EXCEPT
                                !.explain_only = detected.final_result]>>
           /\ ml_shadow_total' = ml_shadow_total \o detected.shadow
    /\ pc' = "detected"
    /\ UNCHANGED <<policy_view, settings, findings, decision, parsed_text,
                   response, safe_messages, request, policy_file, policy_cache,
                   detectors_run, error, model_artifact, ml_preclassifier,
                   ml_preclf_load_total>>
    /\ UNCHANGED <<cache_vars, normalize_vars, guard_vars, siem_vars>>

NextExplainOnly == DetectExplainOnlyCall

SpecExplainOnly == InitExplainOnly /\ [][NextExplainOnly]_vars

----------------------------------------------------------------------------
(* Claims about _detect_explain_only *)

\* the label the injected pre-classifier answers for the segment's content
AnsweredLabel ==
    predict(ml_preclassifier, code_content(parsed_text, segments[1]))

\* the educational-keyword heuristic over the window around the segment
KeywordHeuristic ==
    has_educational_keywords(
        get_surrounding_text(parsed_text, segments[1].start, segments[1].end))

\* C23: for a code segment explain_only is true when the injected
\* pre-classifier answers educational, explain_only or text, false when it
\* answers command, executable or malicious, and otherwise (no classifier,
\* another label, predict raised) the keyword heuristic over the
\* 200-character window; the call does not raise and shadow_mode does not
\* change the value; text and link segments are never explain_only.
Inv_C23_ExplainOnlyDecision ==
    pc = "detected" =>
        /\ error = None
        /\ segments[1].type # "code" => ~segments[1].explain_only
        /\ segments[1].type = "code" =>
              segments[1].explain_only =
                  IF ml_preclassifier = NoClassifier THEN KeywordHeuristic
                  ELSE IF AnsweredLabel \in {"educational", "explain_only", "text"}
                  THEN TRUE
                  ELSE IF AnsweredLabel \in {"command", "executable", "malicious"}
                  THEN FALSE
                  ELSE KeywordHeuristic
        /\ segments[1].explain_only =
              detect_explain_only(segments[1], parsed_text, ml_preclassifier,
                                  ~settings.shadow_mode).final_result

\* in shadow mode the pre-classifier answers command although an educational
\* keyword is next to the code: the value is false and the disagreement was
\* observed
Wit_C23_ShadowModeLabelDecides ==
    /\ pc = "detected"
    /\ settings.shadow_mode
    /\ segments[1].type = "code"
    /\ ml_preclassifier = ModelPreClassifier("command")
    /\ KeywordHeuristic
    /\ ~segments[1].explain_only
    /\ Len(ml_shadow_total) = 1

\* the keyword lies one character beyond the window: the heuristic decides
\* false
Wit_C23_KeywordBeyondWindow ==
    /\ pc = "detected"
    /\ segments[1].type = "code"
    /\ ml_preclassifier = ModelPreClassifier("raise")
    /\ Len(parsed_text) = CONTEXT_WINDOW_SIZE + 1 + Len(InlineCodeA)
    /\ ~segments[1].explain_only
----------------------------------------------------------------------------
(* Direct calls of normalize_text with an entity limit *)

\* the texts are made of up to MaxEntityPieces pieces
MaxEntityPieces == 3

\* two entities, the tail of an entity, a letter, a percent-encoded
\* ampersand and a zero-width character
EntityPieces ==
    { <<"&", "l", "t", ";">>, <<"&", "a", "m", "p", ";">>, <<"l", "t", ";">>,
      <<"a">>, <<"%", "2", "6">>, <<"U+200B">> }

RECURSIVE EntityTexts(_)
EntityTexts(n) ==
    IF n = 0 THEN {<<>>}
    ELSE LET shorter == EntityTexts(n - 1)
         IN  shorter \cup {t \o p : t \in shorter, p \in EntityPieces}

\* the values of max_unescape: limits the texts exceed, and the default
UnescapeLimits == {0, 1, 2, DEFAULT_MAX_UNESCAPE}

\* the step names normalize_text appends for the steps after the HTML step,
\* in order, each when the step changed the text
later_steps(value) ==
    LET normal    == nfkc(value)
        expanded  == expand_obfuscations(normal)
        no_zero   == strip_zero_width_characters(expanded)
        no_ctrl   == strip_control_characters(no_zero)
        newlines  == normalize_newlines(no_ctrl)
    IN  (IF normal # value THEN <<"nfkc">> ELSE <<>>)
        \o (IF expanded # normal THEN <<"expand_obfuscation">> ELSE <<>>)
        \o (IF no_zero # expanded THEN <<"strip_zero_width">> ELSE <<>>)
        \o (IF no_ctrl # no_zero THEN <<"strip_control">> ELSE <<>>)
        \o (IF newlines # no_ctrl THEN <<"normalize_newlines">> ELSE <<>>)

\* normalize_text (normalize.py 193-294): the whole NormalizationResult.
\* over_budget and over_at_end say what the two readings of perf_counter()
\* found, before the HTML step and at the end.
normalization_result(value, max_unescape, over_budget, over_at_end) ==
    LET url      == url_decode_loop(value, 0, 2)
        html     == html_unescape_known_entities(
                        url.value, max_unescape, max_unescape * 2)
        unescaped == IF over_budget THEN url.value ELSE html.value
    IN  [text |-> normalize_text(value, max_unescape, over_budget),
         steps |->
             (IF url.value # value THEN <<"url_decode">> ELSE <<>>)
             \o (IF unescaped # url.value THEN <<"html_unescape">> ELSE <<>>)
             \o later_steps(unescaped),
         entity_count |->
             IF over_budget THEN 0 ELSE count_html_entities(url.value),
         anomalies |->
             (IF url.passes >= 2 THEN <<"url_decode_max_passes_reached">>
              ELSE <<>>)
             \o (IF over_budget THEN <<"time_budget_exceeded_at_html_unescape">>
                 ELSE html.anomalies)
             \o (IF over_at_end THEN <<"total_time_exceeded">> ELSE <<>>)]

InitUnescape ==
    /\ pc = "idle"
    /\ policy_view = EmptyPolicy
    /\ settings = NoSettings
    /\ findings = <<>>
    /\ decision = NoDecision
    /\ parsed_text \in EntityTexts(MaxEntityPieces)
    /\ response = NoText
    /\ safe_messages = [k \in {} |-> NoEntry]
    /\ NoPipeline
    /\ NoService

\* normalize_text(value, max_unescape=limit); time that has run out before
\* the HTML step has run out at the end too
NormalizeLimitedCall ==
    /\ normalized = <<>>
    /\ \E limit \in UnescapeLimits, over_budget \in BOOLEAN, over_at_end \in BOOLEAN :
        /\ over_budget => over_at_end
        /\ normalized' =
               <<[value |-> parsed_text, max_unescape |-> limit,
                  over_budget |-> over_budget,
                  result |-> normalization_result(
                                 parsed_text, limit, over_budget, over_at_end)]>>
    /\ UNCHANGED <<pc, policy_view, settings, findings, decision, parsed_text,
                   response, safe_messages>>
    /\ UNCHANGED <<pipeline_vars, cache_vars, guard_vars, ml_vars, siem_vars>>

NextUnescape == NormalizeLimitedCall

SpecUnescape == InitUnescape /\ [][NextUnescape]_vars

----------------------------------------------------------------------------
(* Claims about the HTML step of normalize_text *)

\* the members of a sequence
Members(s) == {s[i] : i \in 1..Len(s)}

\* the text the HTML step of a call received
HtmlStepInput(call) == safe_url_decode(call.value, 2)

\* the HTML step of a call ran into one of its two limits
HtmlLimitExceeded(call) ==
    /\ ~call.over_budget
    /\ \/ count_html_entities(HtmlStepInput(call)) > call.max_unescape
       \/ Len(html_unescape(HtmlStepInput(call))) > 2 * call.max_unescape

\* C24: when the number of entities counted before decoding exceeds
\* max_unescape, or the decoded text would be longer than 2 x max_unescape,
\* the HTML step leaves the text untouched: html_unescape is not among the
\* steps, an anomaly of the exceeded limit is recorded, entity_count is the
\* count taken before decoding, and the later steps run on the undecoded text.
Inv_C24_HtmlDecodeSkippedOverLimit ==
    \A k \in 1..Len(normalized) :
        LET call   == normalized[k]
            before == HtmlStepInput(call)
        IN  HtmlLimitExceeded(call) =>
                /\ "html_unescape" \notin Members(call.result.steps)
                /\ \/ "html_entity_count_exceeded" \in Members(call.result.anomalies)
                   \/ "html_output_length_exceeded" \in Members(call.result.anomalies)
                /\ call.result.entity_count = count_html_entities(before)
                /\ call.result.text =
                       normalize_newlines(strip_control_characters(
                           strip_zero_width_characters(
                               expand_obfuscations(nfkc(before)))))
                /\ \A name \in Members(later_steps(before)) :
                       name \in Members(call.result.steps)

\* two entities with a zero-width character between them under a limit of
\* one: nothing decoded, the count reported as 2, the zero-width character
\* stripped by the later step
Wit_C24_CountExceededLaterStepsRun ==
    /\ Len(normalized) = 1
    /\ normalized[1].value =
           <<"&", "l", "t", ";", "U+200B", "&", "a", "m", "p", ";">>
    /\ normalized[1].max_unescape = 1
    /\ ~normalized[1].over_budget
    /\ normalized[1].result.text = <<"&", "l", "t", ";", "&", "a", "m", "p", ";">>
    /\ normalized[1].result.steps = <<"strip_zero_width">>
    /\ normalized[1].result.entity_count = 2
    /\ normalized[1].result.anomalies = <<"html_entity_count_exceeded">>

\* one entity within the limit of one whose decoded text of three characters
\* is longer than 2 x 1: nothing decoded
Wit_C24_OutputLengthExceeded ==
    /\ Len(normalized) = 1
    /\ normalized[1].value = <<"&", "l", "t", ";", "a", "a">>
    /\ normalized[1].max_unescape = 1
    /\ ~normalized[1].over_budget
    /\ normalized[1].result.text = normalized[1].value
    /\ normalized[1].result.steps = <<>>
    /\ normalized[1].result.entity_count = 1
    /\ normalized[1].result.anomalies = <<"html_output_length_exceeded">>

\* C25: whenever the HTML step changed the text and the decoded text still
\* contains an HTML entity, a double_encoding_detected anomaly is recorded.
Cex_C25_DoubleEncodingDetected ==
    \A k \in 1..Len(normalized) :
        LET call    == normalized[k]
            decoded == html_unescape_known_entities(
                           HtmlStepInput(call), call.max_unescape,
                           2 * call.max_unescape).value
        IN  (/\ ~call.over_budget
             /\ "html_unescape" \in Members(call.result.steps)
             /\ count_html_entities(decoded) >= 1)
                => "double_encoding_detected" \in Members(call.result.anomalies)
----------------------------------------------------------------------------
(* Direct calls of the detectors' scan functions *)

\* the kinds of the scanned rules: none, empty, a kind no detector names, the
\* two kinds that start with "phone", and one kind each detector names
ScanKinds ==
    {None, "", "unknown", UnlistedPhoneKind, "phone_tr", "email", "large_hex",
     "jwt", "shortener", "rm_rf"}

ScanPatterns == {None, "", ValidPattern, InvalidPattern}

\* one rule for each detector, kind and pattern
ScanRules ==
    {PolicyRule("R", Detectors[d], "mask", kind, pattern, 10, None) :
        d \in 1..Len(Detectors), kind \in ScanKinds, pattern \in ScanPatterns}

InitScan ==
    /\ pc = "idle"
    /\ \E rule \in ScanRules :
          policy_view = [rules |-> <<rule>>,
                         context_settings |-> DefaultContextSettings,
                         allowlist |-> <<>>]
    /\ settings = NoSettings
    /\ findings = <<>>
    /\ decision = NoDecision
    /\ parsed_text \in {TextOfLen(n) : n \in 0..MaxTextLen}
    /\ response = NoText
    /\ safe_messages = [k \in {} |-> NoEntry]
    /\ NoPipeline
    /\ NoService

\* scan(text, policy=policy) of the detector of the policy's rule
\* (pii.py 38-67, exfil.py 19-38, secrets.py 37-51, url.py 48-62,
\* cmd.py 28-42); re.compile may raise re.error out of it
ScanCall ==
    /\ pc = "idle"
    /\ LET detector == policy_view.rules[1].type
           rules    == iter_rules(policy_view, detector)
       IN  /\ detectors_run' = <<detector>>
           /\ IF detector_raises(policy_view, detector)
              THEN pc' = "raised" /\ error' = "detector" /\ UNCHANGED findings
              ELSE /\ \E chosen \in MatchChoices(parsed_text, rules) :
                         findings' = scan(policy_view, parsed_text, None, rules,
                                          chosen)
                   /\ pc' = "scanned"
                   /\ UNCHANGED error
    /\ UNCHANGED <<policy_view, settings, decision, parsed_text, response,
                   safe_messages, request, segments, policy_file, policy_cache>>
    /\ UNCHANGED service_vars

NextScan == ScanCall

SpecScan == InitScan /\ [][NextScan]_vars

----------------------------------------------------------------------------
(* Claims about malformed rules *)

\* the rule has no pattern and either no kind or a kind its detector does not
\* name
MalformedRule(rule) ==
    /\ rule.pattern \in {None, ""}
    /\ \/ rule.kind \in {None, ""}
       \/ rule.kind \notin ScannerKinds(rule.type)

\* C26: for every detector, the scan of a malformed rule (neither kind nor
\* pattern, or a kind the detector does not know) returns no finding.
Cex_C26_MalformedRuleNoFindings ==
    (pc = "scanned" /\ MalformedRule(policy_view.rules[1])) => findings = <<>>
----------------------------------------------------------------------------
(* Claims about SIEMManager.stop *)

\* C27: when stop() completes, the queue is empty and every event that was
\* accepted into the queue has been counted in events_sent or events_failed,
\* whatever flush was in progress when stop() was called.
Cex_C27_StopFlushesRemainingEvents ==
    [][(siem_config.stop # "done" /\ siem_config'.stop = "done")
          => /\ siem_queue' = <<>>
             /\ siem_metrics'.events_sent + siem_metrics'.events_failed
                    = siem_metrics'.events_queued]_vars
----------------------------------------------------------------------------
(* Claims about skipped detectors *)

\* C28: whenever run_pipeline returns blocked = false, all five detectors
\* were run on the text.
Cex_C28_NotBlockedRanAllDetectors ==
    (pc = "done" /\ ~decision.blocked) => detectors_run = Detectors
----------------------------------------------------------------------------
(* Concurrent calls of load_policy *)

\* the threads that call load_policy
MaxLoaders == 2

\* a thread outside load_policy; inside, mtime is the st_mtime it read, store
\* the file version its PolicyStore was parsed from, hit whether the store
\* came from the cache, seen the file version that had the mtime it read
IdleLoader ==
    [pc |-> "idle", mtime |-> 0, store |-> 0, hit |-> FALSE, seen |-> 0]

\* the versions of the policy file: every modification is a new version with
\* a later mtime; a version can be an empty document
LoadedFiles ==
    {[exists |-> TRUE, mtime |-> 1, content |-> 1, empty |-> e] : e \in BOOLEAN}

\* resolved.stat().st_mtime (policy.py 220-224)
loader_stat(loader, file) ==
    [loader EXCEPT !.pc = "check", !.mtime = file.mtime, !.seen = file.content]

\* mutant: any cached entry is a hit
loader_check_ignores_mtime(loader, cache) ==
    IF cache.cached
    THEN [loader EXCEPT !.pc = "returned", !.store = cache.content, !.hit = TRUE]
    ELSE [loader EXCEPT !.pc = "read"]

\* the look-up under _POLICY_LOCK (policy.py 226-230)
loader_check(loader, cache) ==
    IF cache.cached /\ cache.mtime = loader.mtime
    THEN [loader EXCEPT !.pc = "returned", !.store = cache.content, !.hit = TRUE]
    ELSE [loader EXCEPT !.pc = "read"]

\* yaml.safe_load(resolved.read_text()) and the construction of the
\* PolicyStore (policy.py 232-289); an empty file raises ValueError
loader_read(loader, file) ==
    IF file.empty THEN [loader EXCEPT !.pc = "raised"]
    ELSE [loader EXCEPT !.pc = "write", !.store = file.content]

\* _POLICY_CACHE[resolved] = (mtime, store) under _POLICY_LOCK
\* (policy.py 291-293)
loader_write(loader) ==
    [cached |-> TRUE, mtime |-> loader.mtime, content |-> loader.store,
     instance |-> 0]

InitLoad ==
    /\ IdleCore
    /\ request = NoRequest
    /\ segments = <<>>
    /\ policy_file \in LoadedFiles
    /\ policy_cache = NoCacheEntry
    /\ detectors_run = <<>>
    /\ error = None
    /\ last_load = NoLoad
    /\ loaders = [i \in 1..MaxLoaders |-> IdleLoader]
    /\ NoNormalize
    /\ NoGuard
    /\ NoMl
    /\ NoSiem

\* a thread enters load_policy and reads the mtime
LoaderStat(i) ==
    /\ loaders[i].pc = "idle"
    /\ loaders' = [loaders EXCEPT ![i] = loader_stat(@, policy_file)]
    /\ UNCHANGED <<core_vars, pipeline_vars, last_load, normalize_vars,
                   guard_vars, ml_vars, siem_vars>>

\* the thread looks the path up in the cache
LoaderCheck(i) ==
    /\ loaders[i].pc = "check"
    /\ loaders' = [loaders EXCEPT ![i] = loader_check(@, policy_cache)]
    /\ UNCHANGED <<core_vars, pipeline_vars, last_load, normalize_vars,
                   guard_vars, ml_vars, siem_vars>>

\* the thread reads and parses the file as it is now
LoaderRead(i) ==
    /\ loaders[i].pc = "read"
    /\ loaders' = [loaders EXCEPT ![i] = loader_read(@, policy_file)]
    /\ UNCHANGED <<core_vars, pipeline_vars, last_load, normalize_vars,
                   guard_vars, ml_vars, siem_vars>>

\* the thread writes its entry and returns its store
LoaderWrite(i) ==
    /\ loaders[i].pc = "write"
    /\ policy_cache' = loader_write(loaders[i])
    /\ loaders' = [loaders EXCEPT ![i] = [@ EXCEPT !.pc = "returned"]]
    /\ UNCHANGED <<core_vars, request, segments, policy_file, detectors_run,
                   error, last_load, normalize_vars, guard_vars, ml_vars,
                   siem_vars>>

\* the caller has its store, or the exception, and the thread is free for
\* its next call
LoaderDone(i) ==
    /\ loaders[i].pc \in {"returned", "raised"}
    /\ loaders' = [loaders EXCEPT ![i] = IdleLoader]
    /\ UNCHANGED <<core_vars, pipeline_vars, last_load, normalize_vars,
                   guard_vars, ml_vars, siem_vars>>

\* the policy file is modified: new content, a later mtime
ModifyPolicyFile ==
    /\ policy_file.mtime < MaxMtime
    /\ \E e \in BOOLEAN :
          policy_file' = [policy_file EXCEPT !.mtime = @ + 1, !.content = @ + 1,
                                             !.empty = e]
    /\ UNCHANGED <<core_vars, request, segments, policy_cache, detectors_run,
                   error, cache_vars, normalize_vars, guard_vars, ml_vars,
                   siem_vars>>

\* invalidate_policy_cache(path) or invalidate_policy_cache() from any thread
InvalidateWhileLoading ==
    /\ policy_cache.cached
    /\ policy_cache' = invalidate_policy_cache(policy_cache)
    /\ UNCHANGED <<core_vars, request, segments, policy_file, detectors_run,
                   error, cache_vars, normalize_vars, guard_vars, ml_vars,
                   siem_vars>>

NextLoad ==
    \/ \E i \in 1..MaxLoaders : LoaderStat(i)
    \/ \E i \in 1..MaxLoaders : LoaderCheck(i)
    \/ \E i \in 1..MaxLoaders : LoaderRead(i)
    \/ \E i \in 1..MaxLoaders : LoaderWrite(i)
    \/ \E i \in 1..MaxLoaders : LoaderDone(i)
    \/ ModifyPolicyFile
    \/ InvalidateWhileLoading

SpecLoad == InitLoad /\ [][NextLoad]_vars

----------------------------------------------------------------------------
(* Claims about concurrent loads *)

\* C29: under any interleaving of load_policy calls, modifications of the
\* file (each with a later mtime) and invalidations, the store a cache hit
\* returns was never parsed from a file version older than the one whose
\* mtime the caller read.
Inv_C29_HitNeverOlderThanMtimeRead ==
    \A i \in 1..MaxLoaders :
        (loaders[i].pc = "returned" /\ loaders[i].hit)
            => loaders[i].store >= loaders[i].seen

\* a cache hit on the modified file while the other thread, which read the
\* earlier mtime and the earlier content, is about to write its entry late
Wit_C29_HitBeforeLateWrite ==
    \E i, j \in 1..MaxLoaders :
        /\ loaders[i].pc = "returned"
        /\ loaders[i].hit
        /\ loaders[i].seen = 2
        /\ loaders[j].pc = "write"
        /\ loaders[j].mtime = 1
        /\ loaders[j].store = 1

\* the entry written late is in the cache and a caller that read the later
\* mtime was not served from it
Wit_C29_LateEntryNotServed ==
    \E i \in 1..MaxLoaders :
        /\ policy_cache.cached
        /\ policy_cache.mtime = 1
        /\ policy_cache.content = 1
        /\ loaders[i].pc = "read"
        /\ loaders[i].mtime = 2
----------------------------------------------------------------------------
(* Direct calls of _collect_allowlist_entries and build_findings *)

\* a value of the keys types, kinds, rule_ids and tenants of an entry in the
\* policy document: absent, a string, or a list of strings
RawAbsent == [form |-> "none", items |-> {}]

RawString(s) == [form |-> "str", items |-> {s}]

RawList(items) == [form |-> "list", items |-> items]

\* _ensure_set (policy.py 179-184)
ensure_set(raw) == IF raw.form = "none" THEN {} ELSE raw.items

\* an allowlist entry of the policy document: a string, or a mapping
RawStringEntry(value) == [form |-> "str", value |-> value]

RawDictEntry(value, regex, types, kinds, rule_ids, tenants) ==
    [form |-> "dict", value |-> value, regex |-> regex, types |-> types,
     kinds |-> kinds, rule_ids |-> rule_ids, tenants |-> tenants]

\* _parse_allowlist raises ValueError (policy.py 155-156): a mapping with
\* neither value nor regex
parse_allowlist_raises(entries) ==
    \E i \in 1..Len(entries) :
        /\ entries[i].form = "dict"
        /\ entries[i].value = NoText
        /\ entries[i].regex = NoText

\* one iteration of the loop of _parse_allowlist (policy.py 146-175)
parse_allowlist_entry(raw, default_tenants) ==
    IF raw.form = "str"
    THEN AllowlistEntry(raw.value, NoText, {}, {}, {}, default_tenants)
    ELSE AllowlistEntry(raw.value, raw.regex, ensure_set(raw.types),
                        ensure_set(raw.kinds), ensure_set(raw.rule_ids),
                        ensure_set(raw.tenants) \cup default_tenants)

\* _parse_allowlist (policy.py 140-176)
parse_allowlist(entries, default_tenants) ==
    [i \in 1..Len(entries) |-> parse_allowlist_entry(entries[i], default_tenants)]

\* the entries of tenant_allowlist, tenant by tenant in the order of the
\* mapping (policy.py 204-212); the mapping is a sequence of
\* <<tenant, entries>>
RECURSIVE tenant_allowlist_entries(_)
tenant_allowlist_entries(tenant_allowlist) ==
    IF tenant_allowlist = <<>> THEN <<>>
    ELSE parse_allowlist(Head(tenant_allowlist)[2], {Head(tenant_allowlist)[1]})
             \o tenant_allowlist_entries(Tail(tenant_allowlist))

\* _collect_allowlist_entries (policy.py 187-216); an allowlist_regex item
\* that is a string becomes the mapping {"regex": item}
collect_allowlist_entries(content) ==
    parse_allowlist(content.allowlist, {})
        \o parse_allowlist(
               [i \in 1..Len(content.allowlist_regex) |->
                   IF content.allowlist_regex[i].form = "str"
                   THEN RawDictEntry(NoText, content.allowlist_regex[i].value,
                                     RawAbsent, RawAbsent, RawAbsent, RawAbsent)
                   ELSE content.allowlist_regex[i]], {})
        \o tenant_allowlist_entries(content.tenant_allowlist)

\* _collect_allowlist_entries raises
collect_allowlist_raises(content) ==
    \/ parse_allowlist_raises(content.allowlist)
    \/ parse_allowlist_raises(
           SelectSeq(content.allowlist_regex, LAMBDA raw : raw.form = "dict"))
    \/ \E t \in 1..Len(content.tenant_allowlist) :
          parse_allowlist_raises(content.tenant_allowlist[t][2])

\* the entries declared under tenant_allowlist for tenant t1: a string, and
\* mappings with a value, a regex, other constraints, tenants of their own,
\* or nothing to match
TenantRawEntries ==
    { RawStringEntry(<<"a", "b">>),
      RawDictEntry(<<"a", "b">>, NoText, RawAbsent, RawAbsent, RawAbsent, RawAbsent),
      RawDictEntry(NoText, <<"b">>, RawAbsent, RawAbsent, RawAbsent, RawAbsent),
      RawDictEntry(<<"a", "b">>, NoText, RawString("pii"), RawList({"email"}),
                   RawList({"R1"}), RawAbsent),
      RawDictEntry(<<"a", "b">>, NoText, RawAbsent, RawAbsent, RawAbsent,
                   RawString("t2")),
      RawDictEntry(<<"a", "b">>, NoText, RawAbsent, RawAbsent, RawAbsent,
                   RawList({"t1", "t2"})),
      RawDictEntry(NoText, NoText, RawAbsent, RawAbsent, RawAbsent, RawAbsent) }

\* the policy documents: no or one entry for all tenants under allowlist or
\* allowlist_regex, one entry for tenant t1 under tenant_allowlist
TenantPolicyContents ==
    {[allowlist |-> base, allowlist_regex |-> regexes,
      tenant_allowlist |-> << <<"t1", <<entry>> >> >>] :
        base \in {<<>>, <<RawStringEntry(<<"A">>)>>},
        regexes \in {<<>>, <<RawStringEntry(<<"c">>)>>},
        entry \in TenantRawEntries}

InitTenantAllowlist ==
    /\ pc = "idle"
    /\ policy_view \in {[rules |-> <<r>>, context_settings |-> DefaultContextSettings,
                         allowlist |-> <<>>] : r \in AllowlistRules}
    /\ settings = NoSettings
    /\ findings = <<>>
    /\ decision = NoDecision
    /\ parsed_text \in AllowlistTexts
    /\ response = <<>>
    /\ safe_messages = [k \in {} |-> NoEntry]
    /\ request \in {[response |-> NoText, policy_id |-> "default", tenant |-> t] :
                       t \in AllowlistTenants}
    /\ segments = <<>>
    /\ policy_file \in {[exists |-> TRUE, mtime |-> 1, content |-> c] :
                           c \in TenantPolicyContents}
    /\ policy_cache = NoCacheEntry
    /\ detectors_run = <<>>
    /\ error = None
    /\ NoService

\* load_policy builds the allowlist of the policy from the document
\* (policy.py 244), or raises
CollectAllowlistCall ==
    /\ pc = "idle"
    /\ IF collect_allowlist_raises(policy_file.content)
       THEN pc' = "raised" /\ error' = "load_policy" /\ UNCHANGED policy_view
       ELSE /\ pc' = "loaded"
            /\ policy_view' =
                   [policy_view EXCEPT
                       !.allowlist = collect_allowlist_entries(policy_file.content)]
            /\ UNCHANGED error
    /\ UNCHANGED <<settings, findings, decision, parsed_text, response,
                   safe_messages, request, segments, policy_file, policy_cache,
                   detectors_run>>
    /\ UNCHANGED service_vars

\* build_findings for the rule of the policy and the tenant of the request,
\* the scanner having matched every span of the text
TenantBuildFindingsCall ==
    /\ pc = "loaded"
    /\ findings' = build_findings(policy_view, policy_view.rules[1], parsed_text,
                                  AllSpans(parsed_text), request.tenant)
    /\ pc' = "built"
    /\ UNCHANGED <<policy_view, settings, decision, parsed_text, response,
                   safe_messages>>
    /\ UNCHANGED <<pipeline_vars, service_vars>>

NextTenantAllowlist == CollectAllowlistCall \/ TenantBuildFindingsCall

SpecTenantAllowlist == InitTenantAllowlist /\ [][NextTenantAllowlist]_vars

----------------------------------------------------------------------------
(* Claims about tenant allowlists *)

\* the policy of the observed call without the entries of tenant_allowlist
WithoutTenantAllowlist ==
    [policy_view EXCEPT
        !.allowlist = collect_allowlist_entries(
            [policy_file.content EXCEPT !.tenant_allowlist = <<>>])]

\* C30: an entry declared under tenant_allowlist for tenant t1 suppresses no
\* finding of a request whose tenant is another one or none, whatever other
\* fields the entry carries: such a request gets the findings it would get
\* without the tenant_allowlist.
Cex_C30_TenantAllowlistIsolated ==
    (pc = "built" /\ request.tenant # "t1") =>
        findings = build_findings(WithoutTenantAllowlist, policy_view.rules[1],
                                  parsed_text, AllSpans(parsed_text),
                                  request.tenant)

====
